---------------------------- MODULE Spec2Model ----------------------------
(***************************************************************************)
(* A model of the retail dashboard's batch path: the workbook loader       *)
(* (retail_dashboard.load_data, load_data_from_sharepoint), the            *)
(* preprocessor (retail_dashboard.preprocess_data), the export pipeline    *)
(* (powerbi_data_processor) and the refresh orchestrator                   *)
(* (scripts/powerbi_auto_refresh.main); and of the dashboard's cached      *)
(* loader, its password gate, and the two sync scripts                     *)
(* (scripts/sync_sharepoint.py, sync_data.py).                             *)
(*                                                                         *)
(* Ten specifications share the module:                                    *)
(*   Spec      refresh runs over the export directory and its backups      *)
(*   SpecOverlapping  the same runs when callers do not serialise them     *)
(*   SpecLoad  one load of a workbook followed by the batch pipeline       *)
(*   SpecPre   preprocess_data applied once and twice to a table           *)
(*   SpecTime  the two get_time_period functions on a timestamp            *)
(*   SpecEnrich  enrichment and summary tables of a purchases table        *)
(*   SpecCache  calls of load_data through st.cache_data while the source  *)
(*              changes                                                    *)
(*   SpecFetch  one run of sync_sharepoint                                 *)
(*   SpecSync   one run of sync_data                                       *)
(*   SpecSession  reruns and password submissions of dashboard sessions    *)
(* Text is a sequence of one-character strings so that lower(), strip()    *)
(* and the substring test are computed, not assumed.                       *)
(***************************************************************************)
EXTENDS Integers, Sequences, FiniteSets, TLC

VARIABLES
    \* --- Spec: the file system and the refresh runs
    out,          \* the directory powerbi_data, or NoDir
    backups,      \* the directories powerbi_data_backup_<t>, oldest change first
    pc,           \* per run: its position in main()
    bdir,         \* per run: the timestamp in its backup_dir name
    prevOut,      \* per run: powerbi_data as it was when the run started
    prevBackups,  \* per run: the backups as they were when the run started
    failed,       \* per run: "" or the step whose exception reached main's except
    ret,          \* per run: main's return value ("none" until it returns)
    plan,         \* per run: the files export_for_powerbi still has to write
    overlap,      \* whether a run was ever started while another was running
    \* --- SpecLoad: one load and the batch pipeline behind it
    lin,          \* the source: arguments of load_data and the state of the world
    lstage,       \* position in export_for_powerbi / create_enhanced_datasets
    lres,         \* what load_data returned or raised
    penh,         \* purchases table through preprocess and enrichment
    cenh,         \* check-ins table through preprocess and enrichment
    lsum,         \* the names of the summary tables built
    lout,         \* the export directory of this pipeline run
    lraised,      \* "" or the stage at which the pipeline raised
    \* --- SpecPre: preprocess_data on a table
    ptab,         \* the caller's table
    pstage,       \* "start", "once", "twice"
    pout1,        \* preprocess_data(ptab)
    pout2,        \* preprocess_data(preprocess_data(ptab))
    \* --- SpecTime: the two get_time_period functions on a timestamp
    tin,          \* the timestamp: [hour, minute]
    tpEnricher,   \* "" or the label of powerbi_data_processor's get_time_period
    tpDashboard,  \* "" or the label of retail_dashboard's get_time_period
    \* --- SpecEnrich: enrichment and summaries of a preprocessed purchases table
    etab,         \* the purchases table: [rows, cost, hasLocation]
    estage,       \* "start", "enriched", "summarised"
    eenh,         \* purchases_enhanced and the stats tables, or the raise
    esum,         \* the summary tables kpis, top_vendors, top_customers
    \* --- SpecCache: load_data behind st.cache_data
    cworld,       \* the local file and the remote file as they are now
    ccache,       \* per arguments: <<>> or the entry stored by the first call
    cres,         \* <<>> or the last call: its arguments, what it could read, its value
    \* --- SpecFetch: one run of scripts/sync_sharepoint.py
    fin,          \* the environment variables and the local file before the run
    fpc,          \* "start", "get", "save", "exit"
    ftried,       \* the requests made, in order
    ffile,        \* RETAIL.dataMart V2.xlsx: <<who fetched it, what it holds>>
    fexit,        \* "none" or the exit status
    \* --- SpecSync: one run of sync_data.py
    sdIn,         \* the files and what each command will do
    sdPc,         \* "start", "copy", "add", "diff", "commit", "push", "exit"
    sdLog,        \* the steps executed, each with its return code
    sdRepo,       \* retail_data.xlsx, the index, the commits made and pushed
    sdExit,       \* "none" or the exit status
    \* --- SpecSession: browser sessions of the dashboard, each variable per session
    ssCorrect,    \* session_state["password_correct"]: "unset", "True", "False"
    ssPassword,   \* session_state["password"]: <<>> or <<text>>
    ssLast,       \* <<>> or the text of the last submission
    ssSource,     \* the sidebar's data source
    ssPage,       \* what the last script run drew
    ssPos,        \* "rerun": the script is about to run; "waiting": it has run
    ssSubmits     \* the number of submissions so far

refreshVars ==
    <<out, backups, pc, bdir, prevOut, prevBackups, failed, ret, plan, overlap>>
loadVars == <<lin, lstage, lres, penh, cenh, lsum, lout, lraised>>
preVars == <<ptab, pstage, pout1, pout2>>
timeVars == <<tin, tpEnricher, tpDashboard>>
enrichVars == <<etab, estage, eenh, esum>>
batchVars == <<refreshVars, loadVars, preVars, timeVars, enrichVars>>
cacheVars == <<cworld, ccache, cres>>
fetchVars == <<fin, fpc, ftried, ffile, fexit>>
syncVars == <<sdIn, sdPc, sdLog, sdRepo, sdExit>>
sessionVars == <<ssCorrect, ssPassword, ssLast, ssSource, ssPage, ssPos, ssSubmits>>
toolVars == <<cacheVars, fetchVars, syncVars, sessionVars>>
vars == <<batchVars, toolVars>>

-----------------------------------------------------------------------------
(* Text                                                                    *)

UpperChars ==
    <<"A","B","C","D","E","F","G","H","I","J","K","L","M",
      "N","O","P","Q","R","S","T","U","V","W","X","Y","Z">>

LowerChars ==
    <<"a","b","c","d","e","f","g","h","i","j","k","l","m",
      "n","o","p","q","r","s","t","u","v","w","x","y","z">>

\* str.lower() on one character
LowerChar(c) ==
    IF \E i \in 1..Len(UpperChars) : UpperChars[i] = c
    THEN LowerChars[CHOOSE i \in 1..Len(UpperChars) : UpperChars[i] = c]
    ELSE c

\* str.lower()
Lower(s) == [i \in 1..Len(s) |-> LowerChar(s[i])]

IsSpace(c) == c \in {" ", "\t", "\n"}

\* str.strip(): drop the leading and the trailing whitespace
Strip(s) ==
    LET keep == {i \in 1..Len(s) : ~IsSpace(s[i])}
    IN  IF keep = {} THEN <<>>
        ELSE LET lo == CHOOSE i \in keep : \A j \in keep : i <= j
                 hi == CHOOSE i \in keep : \A j \in keep : j <= i
             IN  SubSeq(s, lo, hi)

\* the Python test  needle in hay
Contains(needle, hay) ==
    \E i \in 1..(Len(hay) - Len(needle) + 1) :
        SubSeq(hay, i, i + Len(needle) - 1) = needle

sPurchase == <<"p","u","r","c","h","a","s","e">>
sCheckin == <<"c","h","e","c","k","i","n">>
sDate == <<"d","a","t","e">>
sPrice == <<"p","r","i","c","e">>
sAmount == <<"a","m","o","u","n","t">>


-----------------------------------------------------------------------------
(* Column and sheet names of the organisation's workbook                    *)

cPurchaseDate == <<"p","u","r","c","h","a","s","e","_","d","a","t","e">>
cPurchaseDatePadded ==
    <<" "," ","P","u","r","c","h","a","s","e","_","D","a","t","e"," ">>
cPurchaseDateTrail == <<"p","u","r","c","h","a","s","e","_","d","a","t","e"," ">>
cPrice ==
    <<"p","u","r","c","h","a","s","e","_","p","r","i","c","e","_","w","_",
      "d","i","s","c","o","u","n","t">>
cUnitCost == <<"u","n","i","t","_","c","o","s","t">>
cCustomerGuid == <<"c","u","s","t","o","m","e","r","_","g","u","i","d">>
cVendorName == <<"v","e","n","d","o","r","_","n","a","m","e">>
cVendorNameTrail == <<"v","e","n","d","o","r","_","n","a","m","e"," ">>
cProductName == <<"p","r","o","d","u","c","t","_","n","a","m","e">>
cQuantity == <<"q","u","a","n","t","i","t","y">>
cLocation ==
    <<"p","u","r","c","h","a","s","e","_","l","o","c","a","t","i","o","n">>
cCheckinDate == <<"c","h","e","c","k","i","n","_","d","a","t","e">>
cCustomerName == <<"c","u","s","t","o","m","e","r","_","n","a","m","e">>
cPriceDate == <<"p","r","i","c","e","_","d","a","t","e">>
cAmountTrail == <<"A","m","o","u","n","t"," ">>
cLastUpdated == <<"l","a","s","t","_","u","p","d","a","t","e","d">>
cNotes == <<"n","o","t","e","s">>

shPurchases == <<"P","u","r","c","h","a","s","e","s">>
shPurchaseUpper == <<"P","U","R","C","H","A","S","E","_","2">>
shCheckins == <<"C","h","e","c","k","i","n","s">>
shCheckInLog == <<"C","h","e","c","k","I","n"," ","L","o","g">>
shSheet1 == <<"S","h","e","e","t","1">>
shCheckDashIns == <<"C","h","e","c","k","-","i","n","s">>

-----------------------------------------------------------------------------
(* Tables.  A table is [cols, nrows]; a column is [name, dtype, cells] with  *)
(* Len(cells) = nrows.  dtype is the pandas dtype class of the column:      *)
(* "object", "datetime" (datetime64) or "numeric" (int64/float64).          *)
(* A cell is [k, p, v]:                                                     *)
(*   k = "text": a string; p says what it parses as ("date", "num", "junk") *)
(*               and v is the value it parses to                            *)
(*   k = "num" : a number v (p = "min": the int64 minimum, v = 0)           *)
(*   k = "ts"  : a timestamp, v nanoseconds after the epoch                 *)
(*   k = "null": None / NaN / NaT                                           *)

TextDate(v) == [k |-> "text", p |-> "date", v |-> v]
TextNum(v) == [k |-> "text", p |-> "num", v |-> v]
Junk == [k |-> "text", p |-> "junk", v |-> 0]
Num(v) == [k |-> "num", p |-> "", v |-> v]
IntMin == [k |-> "num", p |-> "min", v |-> 0]
Ts(v) == [k |-> "ts", p |-> "", v |-> v]
Null == [k |-> "null", p |-> "", v |-> 0]

Col(name, dtype, cells) == [name |-> name, dtype |-> dtype, cells |-> cells]

\* pd.DataFrame()
EmptyFrame == [cols |-> <<>>, nrows |-> 0]

\* DataFrame.empty: some axis has length 0
IsEmpty(t) == Len(t.cols) = 0 \/ t.nrows = 0

ColumnNames(t) == {t.cols[i].name : i \in 1..Len(t.cols)}

\* pd.to_datetime(x, errors='coerce') on one value of an object column
ToDatetime(c) ==
    CASE c.k = "ts" -> c
      [] c.k = "num" -> IF c.p = "min" THEN Null ELSE Ts(c.v)
      [] c.k = "text" /\ c.p = "date" -> Ts(c.v)
      [] OTHER -> Null

\* pd.to_numeric(x, errors='coerce') on one value of a column of dtype dt:
\* a datetime64 column is viewed as int64 (NaT is the int64 minimum); in an
\* object column whatever is not a number or a numeric string becomes NaN
ToNumeric(dt, c) ==
    CASE c.k = "num" -> c
      [] c.k = "text" /\ c.p = "num" -> Num(c.v)
      [] c.k = "ts" /\ dt = "datetime" -> Num(c.v)
      [] c.k = "null" /\ dt = "datetime" -> IntMin
      [] OTHER -> Null

IsDateName(n) == Contains(sDate, Lower(n))

\* a test of the name that every column passes
AnyName(n) == TRUE

IsNumberName(n) == Contains(sPrice, Lower(n)) \/ Contains(sAmount, Lower(n))

\* a trim that takes one whitespace character off each end
StripOneEach(s) ==
    LET a == IF Len(s) > 0 /\ IsSpace(s[1]) THEN SubSeq(s, 2, Len(s)) ELSE s
    IN  IF Len(a) > 0 /\ IsSpace(a[Len(a)]) THEN SubSeq(a, 1, Len(a) - 1) ELSE a

\* df.columns = [str(c).strip() for c in df.columns]
CleanName(n) == Strip(n)

\* for col in df.columns: if 'date' in col.lower() and dtype == 'object': to_datetime
DateStep(c) ==
    IF IsDateName(c.name) /\ c.dtype = "object"
    THEN Col(c.name, "datetime", [i \in 1..Len(c.cells) |-> ToDatetime(c.cells[i])])
    ELSE c

\* for col in df.columns: if 'price' in col.lower() or 'amount' in col.lower(): to_numeric
NumberStep(c) ==
    IF IsNumberName(c.name)
    THEN Col(c.name, "numeric",
             [i \in 1..Len(c.cells) |-> ToNumeric(c.dtype, c.cells[i])])
    ELSE c

\* df[col] is a DataFrame, not a Series, when the trimmed name occurs twice:
\* .dtype and pd.to_numeric then raise
DuplicatedName(cols, i) ==
    \E j \in 1..Len(cols) : j # i /\ cols[j].name = cols[i].name

\* preprocess_data(df): [raised, table]; the rows are neither dropped nor
\* reordered
PreprocessData(t) ==
    LET named == [i \in 1..Len(t.cols) |->
                    Col(CleanName(t.cols[i].name), t.cols[i].dtype, t.cols[i].cells)]
        raises == \E i \in 1..Len(named) :
                    /\ DuplicatedName(named, i)
                    /\ IsDateName(named[i].name) \/ IsNumberName(named[i].name)
    IN  IF raises
        THEN [raised |-> TRUE, table |-> t]
        ELSE [raised |-> FALSE,
              table |-> [cols |-> [i \in 1..Len(named) |-> NumberStep(DateStep(named[i]))],
                         nrows |-> t.nrows]]

-----------------------------------------------------------------------------
(* SpecPre: preprocess_data on the tables a workbook sheet can load as      *)

MaxRows == 2

ObjectCells == {TextDate(1), TextNum(2), Junk, Null, Num(3), Ts(4)}
NameCells == {Junk, Null}
DatetimeCells == {Ts(4), Null}
NumericCells == {Num(3), Null}

Header(name, dtype, alpha) == [name |-> name, dtype |-> dtype, alpha |-> alpha]

\* the header rows tried: name, loaded dtype and the values the column holds
Layouts ==
    { <<Header(cPurchaseDatePadded, "object", ObjectCells),
        Header(cVendorName, "object", NameCells)>>,
      <<Header(cPurchaseDate, "datetime", DatetimeCells),
        Header(cPrice, "object", ObjectCells)>>,
      <<Header(cPurchaseDate, "numeric", NumericCells),
        Header(cAmountTrail, "numeric", NumericCells)>>,
      <<Header(cPriceDate, "object", ObjectCells)>>,
      <<Header(cPriceDate, "datetime", DatetimeCells),
        Header(cQuantity, "numeric", NumericCells)>>,
      <<Header(cPurchaseDateTrail, "object", ObjectCells),
        Header(cPurchaseDate, "datetime", DatetimeCells)>>,
      <<Header(cLastUpdated, "object", ObjectCells),
        Header(cUnitCost, "numeric", NumericCells)>>,
      <<Header(cVendorNameTrail, "object", NameCells),
        Header(cVendorName, "object", NameCells)>> }

RECURSIVE Fills(_, _)
Fills(hs, n) ==
    IF hs = <<>> THEN {<<>>}
    ELSE {<<Col(hs[1].name, hs[1].dtype, c)>> \o rest :
            c \in [1..n -> hs[1].alpha], rest \in Fills(Tail(hs), n)}

InputTables ==
    UNION {{[cols |-> f, nrows |-> n] : f \in Fills(hs, n)} :
             hs \in Layouts, n \in 0..MaxRows}

NoResult == [raised |-> FALSE, table |-> EmptyFrame]

PreIdle ==
    /\ ptab = EmptyFrame
    /\ pstage = "idle"
    /\ pout1 = NoResult
    /\ pout2 = NoResult

PreInit ==
    /\ ptab \in InputTables
    /\ pstage = "start"
    /\ pout1 = NoResult
    /\ pout2 = NoResult

\* df2 = preprocess_data(df); df is copied, never written
PreOnce ==
    /\ pstage = "start"
    /\ pout1' = PreprocessData(ptab)
    /\ pstage' = "once"
    /\ UNCHANGED <<ptab, pout2>>
    /\ UNCHANGED <<refreshVars, loadVars, timeVars, enrichVars, toolVars>>

\* preprocess_data(df2), when the first call returned
PreTwice ==
    /\ pstage = "once"
    /\ ~pout1.raised
    /\ pout2' = PreprocessData(pout1.table)
    /\ pstage' = "twice"
    /\ UNCHANGED <<ptab, pout1>>
    /\ UNCHANGED <<refreshVars, loadVars, timeVars, enrichVars, toolVars>>

-----------------------------------------------------------------------------
(* The loader: load_data and load_data_from_sharepoint                      *)

MaxSheets == 3

tblPurchases ==
    [cols |-> <<Col(cPurchaseDate, "datetime", <<Ts(4)>>),
                Col(cPrice, "numeric", <<Num(3)>>),
                Col(cUnitCost, "numeric", <<Num(3)>>),
                Col(cCustomerGuid, "object", <<Junk>>),
                Col(cVendorName, "object", <<Junk>>),
                Col(cProductName, "object", <<Junk>>),
                Col(cQuantity, "numeric", <<Num(3)>>),
                Col(cLocation, "object", <<Junk>>)>>,
     nrows |-> 1]

\* text dates, a header with a trailing blank, no location and no unit cost
tblPurchasesPlain ==
    [cols |-> <<Col(cPurchaseDateTrail, "object", <<TextDate(1)>>),
                Col(cPrice, "object", <<TextNum(2)>>),
                Col(cCustomerGuid, "object", <<Junk>>),
                Col(cVendorName, "object", <<Junk>>),
                Col(cProductName, "object", <<Junk>>),
                Col(cQuantity, "numeric", <<Num(3)>>)>>,
     nrows |-> 1]

tblCheckins ==
    [cols |-> <<Col(cCheckinDate, "datetime", <<Ts(4)>>),
                Col(cCustomerName, "object", <<Junk>>)>>,
     nrows |-> 1]

\* a header row and no data
tblCheckinsNoRows ==
    [cols |-> <<Col(cCheckinDate, "object", <<>>),
                Col(cCustomerName, "object", <<>>)>>,
     nrows |-> 0]

tblNotes == [cols |-> <<Col(cNotes, "object", <<Junk>>)>>, nrows |-> 1]

\* a purchases sheet without the quantity column
tblPurchasesNoQuantity ==
    [cols |-> <<Col(cPurchaseDate, "datetime", <<Ts(4)>>),
                Col(cPrice, "numeric", <<Num(3)>>),
                Col(cCustomerGuid, "object", <<Junk>>),
                Col(cVendorName, "object", <<Junk>>),
                Col(cProductName, "object", <<Junk>>)>>,
     nrows |-> 1]

\* a check-ins sheet without the customer name column
tblCheckinsNoCustomer ==
    [cols |-> <<Col(cCheckinDate, "datetime", <<Ts(4)>>)>>, nrows |-> 1]

Sheet(name, table) == [name |-> name, table |-> table]

SheetPool ==
    { Sheet(shPurchases, tblPurchases),
      Sheet(shPurchaseUpper, tblPurchasesPlain),
      Sheet(shSheet1, tblPurchases),
      Sheet(shSheet1, tblNotes),
      Sheet(shCheckins, tblCheckins),
      Sheet(shCheckInLog, tblCheckinsNoRows),
      Sheet(shCheckDashIns, tblCheckins),
      Sheet(shPurchases, tblPurchasesNoQuantity),
      Sheet(shCheckins, tblCheckinsNoCustomer) }

\* a workbook: its sheets in workbook order, their names distinct
Workbooks ==
    UNION {{w \in [1..n -> SheetPool] :
              \A i, j \in 1..n : i # j => w[i].name # w[j].name} :
           n \in 1..MaxSheets}

NetworkError == 0
HttpOutcomes == {NetworkError, 200, 300, 404, 503}

\* what reading the file as a workbook does: "ok"; "multi": reading every
\* sheet raises and reading the first sheet alone works; "corrupt": both raise
ParseOutcomes == {"ok", "multi", "corrupt"}

Source(url, filepath, givenExists, masterExists, githubExists, http, parse, wb) ==
    [url |-> url, filepath |-> filepath, givenExists |-> givenExists,
     masterExists |-> masterExists, githubExists |-> githubExists,
     http |-> http, parse |-> parse, wb |-> wb]

RemoteSources ==
    {Source(TRUE, "none", FALSE, TRUE, TRUE, h, p, w) :
        h \in HttpOutcomes, p \in ParseOutcomes, w \in Workbooks}

LocalSources ==
    {Source(FALSE, "none", FALSE, m, g, 200, p, w) :
        m \in BOOLEAN, g \in BOOLEAN, p \in ParseOutcomes, w \in Workbooks}
    \cup
    {Source(FALSE, "given", e, TRUE, TRUE, 200, p, w) :
        e \in BOOLEAN, p \in ParseOutcomes, w \in Workbooks}

Sources == RemoteSources \cup LocalSources

\* the same search without the break: the last sheet named so
LastSheetNamed(needle, wb) ==
    LET hits == {i \in 1..Len(wb) : Contains(needle, Lower(wb[i].name))}
    IN  IF hits = {} THEN 0 ELSE CHOOSE i \in hits : \A j \in hits : j <= i

\* for sheet_name in available_sheets: if needle in sheet_name.lower(): ...; break
\* the index of the sheet found, 0 for None
FindSheet(needle, wb) ==
    LET hits == {i \in 1..Len(wb) : Contains(needle, Lower(wb[i].name))}
    IN  IF hits = {} THEN 0 ELSE CHOOSE i \in hits : \A j \in hits : i <= j

Loaded(file, sheet, purchases, checkins, gets, degraded) ==
    [raised |-> "", file |-> file, sheet |-> sheet, purchases |-> purchases,
     checkins |-> checkins, gets |-> gets, degraded |-> degraded]

LoadRaised(exc, file, gets) ==
    [raised |-> exc, file |-> file, sheet |-> <<>>, purchases |-> EmptyFrame,
     checkins |-> EmptyFrame, gets |-> gets, degraded |-> FALSE]

\* the sheet selection both loaders share
SelectSheets(wb, file, gets) ==
    LET ps == FindSheet(sPurchase, wb)
        cs == FindSheet(sCheckin, wb)
        purchase == IF ps # 0 THEN wb[ps] ELSE wb[1]
    IN  Loaded(file, purchase.name, purchase.table,
               IF cs # 0 THEN wb[cs].table ELSE EmptyFrame, gets, FALSE)

\* Response.raise_for_status(): HTTPError for a 4xx or 5xx status
RaisesForStatus(status) == status >= 400 /\ status < 600

\* load_data_from_sharepoint(url): one requests.get, every exception re-raised
\* as FileNotFoundError
LoadDataFromSharepoint(in) ==
    IF in.http = NetworkError \/ RaisesForStatus(in.http)
    THEN LoadRaised("FileNotFoundError", "remote", 1)
    ELSE IF in.parse # "ok"
         THEN LoadRaised("FileNotFoundError", "remote", 1)
         ELSE SelectSheets(in.wb, "remote", 1)

\* the two candidate files tried in the other order
GithubFirst(in) ==
    IF in.githubExists THEN "github"
    ELSE IF in.masterExists THEN "master" ELSE "none"

\* load_data: the default path when filepath is None
ResolveDefault(in) ==
    IF in.masterExists THEN "master"
    ELSE IF in.githubExists THEN "github" ELSE "none"

\* a loader without the except branch: the reader's exception propagates
NoFallback(in, file) == LoadRaised("Exception", file, 0)

\* load_data's except branch: read the first sheet alone, no check-ins
FirstSheetFallback(in, file) ==
    IF in.parse = "multi"
    THEN Loaded(file, in.wb[1].name, in.wb[1].table, EmptyFrame, 0, TRUE)
    ELSE LoadRaised("Exception", file, 0)

\* load_data(filepath, sharepoint_url)
LoadData(in) ==
    IF in.url THEN LoadDataFromSharepoint(in)
    ELSE LET file == IF in.filepath = "none" THEN ResolveDefault(in)
                     ELSE IF in.givenExists THEN "given" ELSE "none"
         IN  IF file = "none" THEN LoadRaised("FileNotFoundError", "none", 0)
             ELSE IF in.parse = "ok" THEN SelectSheets(in.wb, file, 0)
             ELSE FirstSheetFallback(in, file)

-----------------------------------------------------------------------------
(* The batch pipeline: create_enhanced_datasets, create_summary_tables and  *)
(* export_for_powerbi.  An enriched table is the preprocessed table and the *)
(* names of the columns enrichment added.                                   *)

Enriched(raised, table, derived) ==
    [raised |-> raised, table |-> table, derived |-> derived]

ColumnNamed(t, name) ==
    t.cols[CHOOSE i \in 1..Len(t.cols) : t.cols[i].name = name]

\* the .dt accessor raises unless the column is datetime64
HasDatetime(t, name) ==
    name \in ColumnNames(t) /\ ColumnNamed(t, name).dtype = "datetime"

TimeColumns ==
    {"Hour", "DayOfWeek", "DayNum", "Month", "Year", "YearMonth", "Week", "TimePeriod"}
CustomerColumns == {"CustomerTotalSpent", "CustomerRank"}
VendorColumns ==
    {"VendorTotalSales", "VendorTransactionCount", "VendorAvgTransaction",
     "VendorTotalProfit", "VendorRank"}
LocationColumns ==
    {"LocationTotalSales", "LocationTransactionCount", "LocationUniqueCustomers",
     "LocationRank"}
CheckinTimeColumns ==
    {"CheckinHour", "CheckinDayOfWeek", "CheckinMonth", "CheckinYear",
     "CheckinTimePeriod"}
CheckinFrequencyColumns == {"TotalCheckins", "CheckinFrequencyRank"}

\* create_enhanced_datasets, the purchases part: a missing column is a KeyError
EnrichPurchases(t) ==
    LET names == ColumnNames(t)
        needed == {cPurchaseDate, cPrice, cCustomerGuid, cVendorName,
                   cProductName, cQuantity}
    IN  IF ~(needed \subseteq names) \/ ~HasDatetime(t, cPurchaseDate)
        THEN Enriched(TRUE, t, {})
        ELSE Enriched(FALSE, t,
                 TimeColumns \cup {"Profit", "ProfitMargin"} \cup CustomerColumns
                 \cup VendorColumns
                 \cup (IF cLocation \in names THEN LocationColumns ELSE {})
                 \cup {"ProductRank"})

\* the check-ins part without its  if not checkins_df.empty  guard
EnrichCheckinsAlways(t) ==
    IF cCustomerName \notin ColumnNames(t)
    THEN Enriched(TRUE, t, {})
    ELSE Enriched(FALSE, t, CheckinFrequencyColumns)

\* create_enhanced_datasets, the check-ins part
EnrichCheckins(t) ==
    IF IsEmpty(t) THEN Enriched(FALSE, EmptyFrame, {})
    ELSE IF cCheckinDate \in ColumnNames(t) /\ ~HasDatetime(t, cCheckinDate)
         THEN Enriched(TRUE, t, {})
         ELSE IF cCustomerName \notin ColumnNames(t)
              THEN Enriched(TRUE, t, {})
              ELSE Enriched(FALSE, t,
                       (IF cCheckinDate \in ColumnNames(t)
                        THEN CheckinTimeColumns ELSE {})
                       \cup CheckinFrequencyColumns)

\* create_summary_tables: the summaries built, in the order of the dict
SummaryNames(purchases) ==
    <<"kpis", "hourly_sales", "daily_sales", "top_vendors", "top_customers">>
    \o (IF cLocation \in ColumnNames(purchases.table)
        THEN <<"top_locations">> ELSE <<>>)

CsvName(summary) ==
    CASE summary = "kpis" -> "kpis.csv"
      [] summary = "hourly_sales" -> "hourly_sales.csv"
      [] summary = "daily_sales" -> "daily_sales.csv"
      [] summary = "top_vendors" -> "top_vendors.csv"
      [] summary = "top_customers" -> "top_customers.csv"
      [] summary = "top_locations" -> "top_locations.csv"

\* export_for_powerbi: the files written, in writing order
ExportPlan(checkins, summaries) ==
    <<"purchases_enhanced.csv">>
    \o (IF ~IsEmpty(checkins.table) THEN <<"checkins_enhanced.csv">> ELSE <<>>)
    \o [i \in 1..Len(summaries) |-> CsvName(summaries[i])]
    \o <<"vendor_performance.csv", "customer_performance.csv", "metadata.json">>

Range(f) == {f[i] : i \in DOMAIN f}

\* Python's None in a list, null in metadata.json
None == "None"

\* export_for_powerbi: metadata['files_exported']
FilesExported(purchases, checkins) ==
    << "purchases_enhanced.csv",
       IF ~IsEmpty(checkins.table) THEN "checkins_enhanced.csv" ELSE None,
       "kpis.csv", "hourly_sales.csv", "daily_sales.csv", "top_vendors.csv",
       "top_customers.csv",
       IF cLocation \in ColumnNames(purchases.table) THEN "top_locations.csv" ELSE None,
       "vendor_performance.csv", "customer_performance.csv" >>

-----------------------------------------------------------------------------
(* SpecLoad: one run of export_for_powerbi on a source                      *)

NoLoad == LoadRaised("", "none", 0)
NoTable == Enriched(FALSE, EmptyFrame, {})
NoExport == [exists |-> FALSE, files |-> {}, files_exported |-> <<>>]

LoadIdle ==
    /\ lin = Source(FALSE, "none", FALSE, FALSE, FALSE, 200, "ok", <<>>)
    /\ lstage = "idle"
    /\ lres = NoLoad
    /\ penh = NoTable
    /\ cenh = NoTable
    /\ lsum = <<>>
    /\ lout = NoExport
    /\ lraised = ""

LoadInit ==
    /\ lin \in Sources
    /\ lstage = "start"
    /\ lres = NoLoad
    /\ penh = NoTable
    /\ cenh = NoTable
    /\ lsum = <<>>
    /\ lout = NoExport
    /\ lraised = ""

\* export_for_powerbi: output_path.mkdir(exist_ok=True), then
\* create_enhanced_datasets calls load_data
LLoad ==
    /\ lstage = "start"
    /\ lout' = [lout EXCEPT !.exists = TRUE]
    /\ lres' = LoadData(lin)
    /\ IF lres'.raised # ""
       THEN lstage' = "raised" /\ lraised' = "load"
       ELSE lstage' = "loaded" /\ lraised' = ""
    /\ UNCHANGED <<lin, penh, cenh, lsum>>
    /\ UNCHANGED <<refreshVars, preVars, timeVars, enrichVars, toolVars>>

\* df = preprocess_data(df); if not checkins_df.empty: preprocess_data(checkins_df)
LPreprocess ==
    /\ lstage = "loaded"
    /\ LET p == PreprocessData(lres.purchases)
           c == IF IsEmpty(lres.checkins)
                THEN [raised |-> FALSE, table |-> lres.checkins]
                ELSE PreprocessData(lres.checkins)
       IN  /\ penh' = Enriched(p.raised, p.table, {})
           /\ cenh' = Enriched(c.raised, c.table, {})
           /\ IF p.raised \/ c.raised
              THEN lstage' = "raised" /\ lraised' = "preprocess"
              ELSE lstage' = "preprocessed" /\ lraised' = ""
    /\ UNCHANGED <<lin, lres, lsum, lout>>
    /\ UNCHANGED <<refreshVars, preVars, timeVars, enrichVars, toolVars>>

LEnrichPurchases ==
    /\ lstage = "preprocessed"
    /\ penh' = EnrichPurchases(penh.table)
    /\ IF penh'.raised
       THEN lstage' = "raised" /\ lraised' = "purchases"
       ELSE lstage' = "purchases" /\ lraised' = ""
    /\ UNCHANGED <<lin, lres, cenh, lsum, lout>>
    /\ UNCHANGED <<refreshVars, preVars, timeVars, enrichVars, toolVars>>

LEnrichCheckins ==
    /\ lstage = "purchases"
    /\ cenh' = EnrichCheckins(cenh.table)
    /\ IF cenh'.raised
       THEN lstage' = "raised" /\ lraised' = "checkins"
       ELSE lstage' = "enriched" /\ lraised' = ""
    /\ UNCHANGED <<lin, lres, penh, lsum, lout>>
    /\ UNCHANGED <<refreshVars, preVars, timeVars, enrichVars, toolVars>>

LSummarise ==
    /\ lstage = "enriched"
    /\ lsum' = SummaryNames(penh)
    /\ lstage' = "summarised"
    /\ UNCHANGED <<lin, lres, penh, cenh, lout, lraised>>
    /\ UNCHANGED <<refreshVars, preVars, timeVars, enrichVars, toolVars>>

LExport ==
    /\ lstage = "summarised"
    /\ lout' = [lout EXCEPT !.files = Range(ExportPlan(cenh, lsum)),
                            !.files_exported = FilesExported(penh, cenh)]
    /\ lstage' = "exported"
    /\ UNCHANGED <<lin, lres, penh, cenh, lsum, lraised>>
    /\ UNCHANGED <<refreshVars, preVars, timeVars, enrichVars, toolVars>>

-----------------------------------------------------------------------------
(* Spec: refresh runs of scripts/powerbi_auto_refresh.main over the export  *)
(* directory.  A directory is [gen, files, sub]: the run whose export       *)
(* created it (0: an export older than every run), the files in it, and     *)
(* its subdirectory named powerbi_data (a sequence of length 0 or 1).       *)
(* `out` is a sequence of length 0 or 1 as well: powerbi_data, if it exists.*)

NumRuns == 2
NumTimes == 2

Runs == 1..NumRuns
Times == 1..NumTimes

Dir(gen, files, sub) == [gen |-> gen, files |-> files, sub |-> sub]
Backup(name, dir) == [name |-> name, dir |-> dir]

\* what export_for_powerbi does with a source, up to the files it will write:
\* [raised, plan]
Outcome(raised, filesToWrite) == [raised |-> raised, plan |-> filesToWrite]

RunPipeline(src) ==
    LET l == LoadData(src)
        p == PreprocessData(l.purchases)
        c == IF IsEmpty(l.checkins) THEN [raised |-> FALSE, table |-> l.checkins]
             ELSE PreprocessData(l.checkins)
        pe == EnrichPurchases(p.table)
        ce == EnrichCheckins(c.table)
    IN  IF l.raised # "" THEN Outcome("load", <<>>)
        ELSE IF p.raised \/ c.raised \/ pe.raised \/ ce.raised
             THEN Outcome("process", <<>>)
             ELSE Outcome("", ExportPlan(ce, SummaryNames(pe)))

\* main always passes a URL (SHAREPOINT_URL or the built-in one); an empty
\* SHAREPOINT_URL makes load_data take the local default path
RefreshSources ==
    {s \in Sources : s.filepath = "none" /\ Len(s.wb) <= 2}

RefreshOutcomes == {RunPipeline(s) : s \in RefreshSources}

RequiredFiles == {"purchases_enhanced.csv", "kpis.csv", "metadata.json"}

\* an export left by an earlier refresh
InitialExport ==
    Dir(0, {"purchases_enhanced.csv", "kpis.csv", "hourly_sales.csv",
            "daily_sales.csv", "top_vendors.csv", "top_customers.csv",
            "vendor_performance.csv", "customer_performance.csv",
            "metadata.json"}, <<>>)

BackupIndex(bs, t) ==
    IF \E i \in 1..Len(bs) : bs[i].name = t
    THEN CHOOSE i \in 1..Len(bs) : bs[i].name = t
    ELSE 0

RemoveAt(seq, i) == SubSeq(seq, 1, i - 1) \o SubSeq(seq, i + 1, Len(seq))

RefreshIdle ==
    /\ out = <<>>
    /\ backups = <<>>
    /\ pc = [r \in Runs |-> "idle"]
    /\ bdir = [r \in Runs |-> 0]
    /\ prevOut = [r \in Runs |-> <<>>]
    /\ prevBackups = [r \in Runs |-> <<>>]
    /\ failed = [r \in Runs |-> ""]
    /\ ret = [r \in Runs |-> "none"]
    /\ plan = [r \in Runs |-> <<>>]
    /\ overlap = FALSE

RefreshInit ==
    /\ out \in {<<>>, <<InitialExport>>}
    /\ backups = <<>>
    /\ pc = [r \in Runs |-> "idle"]
    /\ bdir = [r \in Runs |-> 0]
    /\ prevOut = [r \in Runs |-> <<>>]
    /\ prevBackups = [r \in Runs |-> <<>>]
    /\ failed = [r \in Runs |-> ""]
    /\ ret = [r \in Runs |-> "none"]
    /\ plan = [r \in Runs |-> <<>>]
    /\ overlap = FALSE

\* a caller that starts a run whatever the others are doing
AnyTime(r) == TRUE

\* runs are started one after another by the caller
NoOtherRun(r) ==
    /\ \A q \in Runs \ {r} : pc[q] \in {"idle", "done"}
    /\ IF r = 1 THEN TRUE ELSE pc[r - 1] = "done"

\* main: backup_dir is named after the local wall clock, to the second
Start(r) ==
    /\ pc[r] = "idle"
    /\ NoOtherRun(r)
    /\ ~overlap    \* no run is explored after a pair that overlapped
    /\ \E t \in Times : bdir' = [bdir EXCEPT ![r] = t]
    /\ prevOut' = [prevOut EXCEPT ![r] = out]
    /\ prevBackups' = [prevBackups EXCEPT ![r] = backups]
    /\ pc' = [pc EXCEPT ![r] = "backup"]
    /\ UNCHANGED <<out, backups, failed, ret, plan>>
    /\ UNCHANGED <<overlap, loadVars, preVars, timeVars, enrichVars, toolVars>>

\* main started by a second caller (a second scheduler entry, a manual run)
\* while a run is under way: nothing in main looks for one.  The overlaps
\* explored are those of the first two runs, the second starting once the
\* first has written its files and has not yet returned.
StartOverlapping(r) ==
    /\ pc[r] = "idle"
    /\ ~overlap
    /\ r > 1
    /\ \A q \in Runs : pc[q] # "done"
    /\ pc[r - 1] \in {"verify", "cleanup", "summary"}
    /\ \E t \in Times : bdir' = [bdir EXCEPT ![r] = t]
    /\ prevOut' = [prevOut EXCEPT ![r] = out]
    /\ prevBackups' = [prevBackups EXCEPT ![r] = backups]
    /\ pc' = [pc EXCEPT ![r] = "backup"]
    /\ overlap' = TRUE
    /\ UNCHANGED <<out, backups, failed, ret, plan>>
    /\ UNCHANGED <<loadVars, preVars, timeVars, enrichVars, toolVars>>

\* if Path(output_dir).exists(): shutil.move(output_dir, backup_dir)
\* shutil.move into an existing directory moves the source inside it, and
\* raises when it already holds an entry of that name
BackupPrevious(r) ==
    /\ pc[r] = "backup"
    /\ LET i == BackupIndex(backups, bdir[r])
       IN  IF out = <<>>
           THEN /\ pc' = [pc EXCEPT ![r] = "mkdir"]
                /\ UNCHANGED <<out, backups, failed>>
           ELSE IF i = 0
           THEN /\ backups' = Append(backups, Backup(bdir[r], out[1]))
                /\ out' = <<>>
                /\ pc' = [pc EXCEPT ![r] = "mkdir"]
                /\ UNCHANGED failed
           ELSE IF backups[i].dir.sub = <<>>
           THEN /\ backups' = Append(RemoveAt(backups, i),
                                     Backup(bdir[r], [backups[i].dir EXCEPT !.sub = out]))
                /\ out' = <<>>
                /\ pc' = [pc EXCEPT ![r] = "mkdir"]
                /\ UNCHANGED failed
           ELSE /\ failed' = [failed EXCEPT ![r] = "backup"]
                /\ pc' = [pc EXCEPT ![r] = "except"]
                /\ UNCHANGED <<out, backups>>
    /\ UNCHANGED <<bdir, prevOut, prevBackups, ret, plan>>
    /\ UNCHANGED <<overlap, loadVars, preVars, timeVars, enrichVars, toolVars>>

\* export_for_powerbi: output_path.mkdir(exist_ok=True)
ExportMkdir(r) ==
    /\ pc[r] = "mkdir"
    /\ out' = IF out = <<>> THEN <<Dir(r, {}, <<>>)>> ELSE out
    /\ pc' = [pc EXCEPT ![r] = "load"]
    /\ UNCHANGED <<backups, bdir, prevOut, prevBackups, failed, ret, plan>>
    /\ UNCHANGED <<overlap, loadVars, preVars, timeVars, enrichVars, toolVars>>

\* export_for_powerbi: create_enhanced_datasets and create_summary_tables
ExportProcess(r) ==
    /\ pc[r] = "load"
    /\ \E o \in RefreshOutcomes :
          IF o.raised # ""
          THEN /\ failed' = [failed EXCEPT ![r] = o.raised]
               /\ pc' = [pc EXCEPT ![r] = "except"]
               /\ UNCHANGED plan
          ELSE /\ plan' = [plan EXCEPT ![r] = o.plan]
               /\ pc' = [pc EXCEPT ![r] = "write"]
               /\ UNCHANGED failed
    /\ UNCHANGED <<out, backups, bdir, prevOut, prevBackups, ret>>
    /\ UNCHANGED <<overlap, loadVars, preVars, timeVars, enrichVars, toolVars>>

\* export_for_powerbi: one to_csv / json.dump; it raises when the directory
\* is gone and may raise on an I/O error
ExportWrite(r) ==
    /\ pc[r] = "write"
    /\ plan[r] # <<>>
    /\ \/ /\ out # <<>>
          /\ out' = <<[out[1] EXCEPT !.files = @ \cup {Head(plan[r])}]>>
          /\ plan' = [plan EXCEPT ![r] = Tail(plan[r])]
          /\ pc' = [pc EXCEPT ![r] = IF Tail(plan[r]) = <<>> THEN "verify" ELSE "write"]
          /\ UNCHANGED failed
       \/ /\ failed' = [failed EXCEPT ![r] = "write"]
          /\ pc' = [pc EXCEPT ![r] = "except"]
          /\ UNCHANGED <<out, plan>>
    /\ UNCHANGED <<backups, bdir, prevOut, prevBackups, ret>>
    /\ UNCHANGED <<overlap, loadVars, preVars, timeVars, enrichVars, toolVars>>

\* a check of the export that passes whatever is in the directory
VerifyNothing(r) ==
    /\ pc[r] = "verify"
    /\ pc' = [pc EXCEPT ![r] = "cleanup"]
    /\ UNCHANGED <<out, backups, bdir, prevOut, prevBackups, failed, ret, plan>>
    /\ UNCHANGED <<overlap, loadVars, preVars, timeVars, enrichVars, toolVars>>

\* main: the required files must exist in export_path
Verify(r) ==
    /\ pc[r] = "verify"
    /\ IF out # <<>> /\ RequiredFiles \subseteq out[1].files
       THEN pc' = [pc EXCEPT ![r] = "cleanup"] /\ UNCHANGED failed
       ELSE /\ failed' = [failed EXCEPT ![r] = "verify"]
            /\ pc' = [pc EXCEPT ![r] = "except"]
    /\ UNCHANGED <<out, backups, bdir, prevOut, prevBackups, ret, plan>>
    /\ UNCHANGED <<overlap, loadVars, preVars, timeVars, enrichVars, toolVars>>

\* main: of the powerbi_data_backup_* directories, sorted by st_ctime, all but
\* the last are removed; an rmtree may raise after some were removed
Cleanup(r) ==
    /\ pc[r] = "cleanup"
    /\ \/ /\ backups' = IF Len(backups) > 1 THEN <<backups[Len(backups)]>> ELSE backups
          /\ pc' = [pc EXCEPT ![r] = "summary"]
          /\ UNCHANGED failed
       \/ /\ Len(backups) > 1
          /\ \E k \in 0..(Len(backups) - 2) :
                backups' = SubSeq(backups, k + 1, Len(backups))
          /\ failed' = [failed EXCEPT ![r] = "cleanup"]
          /\ pc' = [pc EXCEPT ![r] = "except"]
    /\ UNCHANGED <<out, bdir, prevOut, prevBackups, ret, plan>>
    /\ UNCHANGED <<overlap, loadVars, preVars, timeVars, enrichVars, toolVars>>

\* main: print the summary from metadata.json, return True
Summary(r) ==
    /\ pc[r] = "summary"
    /\ ret' = [ret EXCEPT ![r] = "True"]
    /\ pc' = [pc EXCEPT ![r] = "done"]
    /\ UNCHANGED <<out, backups, bdir, prevOut, prevBackups, failed, plan>>
    /\ UNCHANGED <<overlap, loadVars, preVars, timeVars, enrichVars, toolVars>>

\* main, except Exception: if the backup exists, rmtree the export directory
\* and move the backup back; return False
Restore(r) ==
    /\ pc[r] = "except"
    /\ LET i == BackupIndex(backups, bdir[r])
       IN  IF i # 0
           THEN out' = <<backups[i].dir>> /\ backups' = RemoveAt(backups, i)
           ELSE UNCHANGED <<out, backups>>
    /\ ret' = [ret EXCEPT ![r] = "False"]
    /\ pc' = [pc EXCEPT ![r] = "done"]
    /\ UNCHANGED <<bdir, prevOut, prevBackups, failed, plan>>
    /\ UNCHANGED <<overlap, loadVars, preVars, timeVars, enrichVars, toolVars>>

-----------------------------------------------------------------------------
(* SpecTime: get_time_period of the batch enricher and of the dashboard     *)

Hours == 0..23
Minutes == {0, 30, 59}

\* Series.dt.hour of a timestamp
HourOf(ts) == ts.hour

\* get_time_period with the afternoon starting one hour late
get_time_period_late(hour) ==
    IF 5 =< hour /\ hour < 13 THEN "Morning"
    ELSE IF 13 =< hour /\ hour < 17 THEN "Afternoon"
    ELSE IF 17 =< hour /\ hour < 21 THEN "Evening"
    ELSE "Night"

\* powerbi_data_processor.create_enhanced_datasets.get_time_period
get_time_period(hour) ==
    IF 5 =< hour /\ hour < 12 THEN "Morning"
    ELSE IF 12 =< hour /\ hour < 17 THEN "Afternoon"
    ELSE IF 17 =< hour /\ hour < 21 THEN "Evening"
    ELSE "Night"

\* retail_dashboard's get_time_period, local to the time analysis tab
get_time_period_dashboard(hour) ==
    IF 5 =< hour /\ hour < 12 THEN "Morning (5AM-12PM)"
    ELSE IF 12 =< hour /\ hour < 17 THEN "Afternoon (12PM-5PM)"
    ELSE IF 17 =< hour /\ hour < 21 THEN "Evening (5PM-9PM)"
    ELSE "Night (9PM-5AM)"

TimeIdle ==
    /\ tin = [hour |-> 0, minute |-> 0]
    /\ tpEnricher = "idle"
    /\ tpDashboard = "idle"

TimeInit ==
    /\ tin \in [hour : Hours, minute : Minutes]
    /\ tpEnricher = ""
    /\ tpDashboard = ""

\* purchases_enhanced['TimePeriod'] = purchases_enhanced['Hour'].apply(...)
EnricherPeriod ==
    /\ tpEnricher = ""
    /\ tpEnricher' = get_time_period(HourOf(tin))
    /\ UNCHANGED <<tin, tpDashboard>>
    /\ UNCHANGED <<refreshVars, loadVars, preVars, enrichVars, toolVars>>

\* hourly_sales["time_period"] = hourly_sales["hour"].apply(get_time_period)
DashboardPeriod ==
    /\ tpDashboard = ""
    /\ tpDashboard' = get_time_period_dashboard(HourOf(tin))
    /\ UNCHANGED <<tin, tpEnricher>>
    /\ UNCHANGED <<refreshVars, loadVars, preVars, enrichVars, toolVars>>

-----------------------------------------------------------------------------
(* SpecEnrich: create_enhanced_datasets and create_summary_tables on a      *)
(* preprocessed purchases table.  A row is [price, cost, customer, vendor,  *)
(* product, location]: price and cost are cells (Num or Null), the others   *)
(* are group keys, NoKey where the workbook cell is empty (NaN).  The       *)
(* table says whether it has a unit_cost column (and whether that column    *)
(* holds numbers or text) and whether it has a purchase_location column.    *)

MaxPurchases == 3
TopVendorsLimit == 20
TopCustomersLimit == 50
NoKey == 0

Row(price, cost, customer, vendor, product, location) ==
    [price |-> price, cost |-> cost, customer |-> customer, vendor |-> vendor,
     product |-> product, location |-> location]

Table(rows, cost, hasLocation) ==
    [rows |-> rows, cost |-> cost, hasLocation |-> hasLocation]

\* the rows the small tables are made of: equal totals, the same product at
\* two vendors, a zero and a negative price, empty cells in every column
RowPool ==
    { Row(Num(100), Num(60),  1, 1, 1, 1),
      Row(Num(100), Num(100), 2, 2, 1, 1),
      Row(Num(50),  Num(20),  3, 1, 2, 2),
      Row(Num(0),   Num(5),   1, 2, 2, 2),
      Row(Num(0 - 10), Num(0), 3, NoKey, 3, 2),
      Row(Null,     Num(10),  NoKey, 3, 3, NoKey),
      Row(Num(50),  Null,     3, 3, 2, NoKey) }

\* one more customer than top_customers keeps, over one more vendor than
\* top_vendors keeps, with equal totals among them
BigTable ==
    Table([i \in 1..(TopCustomersLimit + 1) |->
              Row(Num((i % 5) + 1), Num(1), i, ((i - 1) % (TopVendorsLimit + 1)) + 1,
                  i, 1)],
          "numeric", TRUE)

RECURSIVE RowSeqs(_)
RowSeqs(n) ==
    IF n = 0 THEN {<<>>}
    ELSE LET shorter == RowSeqs(n - 1)
         IN  shorter \cup {Append(s, r) : s \in {t \in shorter : Len(t) = n - 1},
                                          r \in RowPool}

PurchaseTables ==
    {Table(rows, c[1], c[2]) : rows \in RowSeqs(MaxPurchases),
                               c \in {<<"numeric", TRUE>>, <<"numeric", FALSE>>,
                                      <<"absent", FALSE>>, <<"text", TRUE>>}}
    \cup {BigTable}

\* --- arithmetic of the columns

RECURSIVE SeqSum(_)
SeqSum(s) == IF s = <<>> THEN 0 ELSE Head(s) + SeqSum(Tail(s))

\* Series.sum(): NaN is skipped, the sum of nothing is 0
SumCells(cells) ==
    LET sel == SelectSeq(cells, LAMBDA c : c.k # "null")
    IN  SeqSum([i \in 1..Len(sel) |-> sel[i].v])

\* a - b on two numeric columns: NaN where either is NaN
Minus(a, b) == IF a.k = "null" \/ b.k = "null" THEN Null ELSE Num(a.v - b.v)

\* a float that is a quotient: n/d, kept as the pair
Ratio(n, d) == [k |-> "ratio", n |-> n, d |-> d]
Whole(n) == [k |-> "ratio", n |-> n, d |-> 1]
NaN == [k |-> "nan", n |-> 0, d |-> 1]
Inf(sign) == [k |-> "inf", n |-> sign, d |-> 1]

\* Profit / price * 100 on float columns: no exception on a zero divisor,
\* the quotient is inf or NaN
MarginQuotient(profit, price) ==
    IF profit.k = "null" \/ price.k = "null" THEN NaN
    ELSE IF price.v = 0
         THEN (IF profit.v = 0 THEN NaN
               ELSE Inf(IF profit.v > 0 THEN 1 ELSE 0 - 1))
         ELSE Ratio(profit.v * 100, price.v)

\* price > 0 on the column: False on NaN
Positive(c) == c.k # "null" /\ c.v > 0

\* the margin with the guard on the quotient left out
UnguardedMargin(profit, price) == MarginQuotient(profit, price)

\* np.where(price > 0, Profit / price * 100, 0): both branches are computed
ProfitMarginOf(profit, price) ==
    LET quotient == MarginQuotient(profit, price)
    IN  IF Positive(price) THEN quotient ELSE Whole(0)

\* --- groupby, rank and merge

\* groupby(f): the groups are the non-NaN keys, in ascending order
GroupKeys(rows, f) == {rows[i][f] : i \in 1..Len(rows)} \ {NoKey}

RECURSIVE Ascending(_)
Ascending(S) ==
    IF S = {} THEN <<>>
    ELSE LET m == CHOOSE x \in S : \A y \in S : x =< y
         IN  <<m>> \o Ascending(S \ {m})

GroupRows(rows, f, key) == SelectSeq(rows, LAMBDA r : r[f] = key)

ColumnOf(rows, col) == [i \in 1..Len(rows) |-> rows[i][col]]

\* rank(ascending=False, method='min'): one more than the groups above
MinRank(totals, x) == 1 + Cardinality({i \in 1..Len(totals) : totals[i] > x})

\* rank(ascending=False, method='dense') of x among the groups' totals
DenseRank(totals, x) ==
    1 + Cardinality({totals[i] : i \in {j \in 1..Len(totals) : totals[j] > x}})

\* groupby(f)[price].sum() with its dense rank; profit summed where asked
GroupStats(rows, f) ==
    LET keys == Ascending(GroupKeys(rows, f))
        total(key) == SumCells(ColumnOf(GroupRows(rows, f, key), "price"))
        totals == [i \in 1..Len(keys) |-> total(keys[i])]
    IN  [i \in 1..Len(keys) |->
            [key |-> keys[i],
             total |-> total(keys[i]),
             profit |-> SumCells(ColumnOf(GroupRows(rows, f, keys[i]), "Profit")),
             rank |-> DenseRank(totals, total(keys[i]))]]

\* the row of stats with this key, as a sequence of length 0 or 1
StatsOf(stats, key) == SelectSeq(stats, LAMBDA g : g.key = key)

\* groupby(['product_name', 'vendor_name']): one group for every pair that
\* occurs with neither name NaN, ordered by product, then vendor
ProductStats(rows) ==
    LET products == Ascending(GroupKeys(rows, "product"))
        pairsOf(p) ==
            LET vs == Ascending(GroupKeys(GroupRows(rows, "product", p), "vendor"))
            IN  [j \in 1..Len(vs) |-> <<p, vs[j]>>]
        RECURSIVE Flatten(_)
        Flatten(i) == IF i > Len(products) THEN <<>>
                      ELSE pairsOf(products[i]) \o Flatten(i + 1)
        pairs == Flatten(1)
        total(pr) ==
            SumCells(ColumnOf(SelectSeq(rows,
                LAMBDA r : r.product = pr[1] /\ r.vendor = pr[2]), "price"))
        totals == [i \in 1..Len(pairs) |-> total(pairs[i])]
    IN  [i \in 1..Len(pairs) |->
            [key |-> pairs[i][1], vendor |-> pairs[i][2],
             total |-> total(pairs[i]),
             rank |-> DenseRank(totals, total(pairs[i]))]]

\* merge(stats, on=key, how='left'): every left row once for every stats row
\* with its key, in left order; once with NaN when there is none
RECURSIVE MergeLeft(_, _, _)
MergeLeft(rows, stats, f) ==
    IF rows = <<>> THEN <<>>
    ELSE LET r == Head(rows)
             found == StatsOf(stats, r[f])
         IN  (IF found = <<>> THEN <<[row |-> r, found |-> <<>>]>>
              ELSE [j \in 1..Len(found) |-> [row |-> r, found |-> <<found[j]>>]])
             \o MergeLeft(Tail(rows), stats, f)

CellOf(found, col) == IF found = <<>> THEN Null ELSE Num(found[1][col])

\* the financial columns left empty
WithProfitOmitted(t) ==
    [i \in 1..Len(t.rows) |->
        LET r == t.rows[i]
        IN  [price |-> r.price, cost |-> r.cost, customer |-> r.customer,
             vendor |-> r.vendor, product |-> r.product, location |-> r.location,
             Profit |-> Null, ProfitMargin |-> NaN]]

\* the financial calculations, lines 58 to 68
WithProfit(t) ==
    [i \in 1..Len(t.rows) |->
        LET r == t.rows[i]
            profit == IF t.cost = "absent" THEN Num(0) ELSE Minus(r.price, r.cost)
        IN  [price |-> r.price, cost |-> r.cost, customer |-> r.customer,
             vendor |-> r.vendor, product |-> r.product, location |-> r.location,
             Profit |-> profit,
             ProfitMargin |-> IF t.cost = "absent" THEN Whole(0)
                              ELSE ProfitMarginOf(profit, r.price)]]

WithCustomer(r, g) ==
    [price |-> r.price, cost |-> r.cost, customer |-> r.customer,
     vendor |-> r.vendor, product |-> r.product, location |-> r.location,
     Profit |-> r.Profit, ProfitMargin |-> r.ProfitMargin,
     CustomerTotalSpent |-> CellOf(g, "total"), CustomerRank |-> CellOf(g, "rank")]

WithVendor(r, g) ==
    [price |-> r.price, cost |-> r.cost, customer |-> r.customer,
     vendor |-> r.vendor, product |-> r.product, location |-> r.location,
     Profit |-> r.Profit, ProfitMargin |-> r.ProfitMargin,
     CustomerTotalSpent |-> r.CustomerTotalSpent, CustomerRank |-> r.CustomerRank,
     VendorTotalSales |-> CellOf(g, "total"),
     VendorTotalProfit |-> CellOf(g, "profit"),
     VendorRank |-> CellOf(g, "rank")]

WithLocation(r, g) ==
    [price |-> r.price, cost |-> r.cost, customer |-> r.customer,
     vendor |-> r.vendor, product |-> r.product, location |-> r.location,
     Profit |-> r.Profit, ProfitMargin |-> r.ProfitMargin,
     CustomerTotalSpent |-> r.CustomerTotalSpent, CustomerRank |-> r.CustomerRank,
     VendorTotalSales |-> r.VendorTotalSales,
     VendorTotalProfit |-> r.VendorTotalProfit,
     VendorRank |-> r.VendorRank,
     LocationTotalSales |-> CellOf(g, "total"), LocationRank |-> CellOf(g, "rank")]

WithProduct(r, g) ==
    [price |-> r.price, cost |-> r.cost, customer |-> r.customer,
     vendor |-> r.vendor, product |-> r.product, location |-> r.location,
     Profit |-> r.Profit, ProfitMargin |-> r.ProfitMargin,
     CustomerTotalSpent |-> r.CustomerTotalSpent, CustomerRank |-> r.CustomerRank,
     VendorTotalSales |-> r.VendorTotalSales,
     VendorTotalProfit |-> r.VendorTotalProfit,
     VendorRank |-> r.VendorRank,
     LocationTotalSales |-> r.LocationTotalSales, LocationRank |-> r.LocationRank,
     ProductRank |-> CellOf(g, "rank")]

\* create_enhanced_datasets from the financial calculations on:
\* [raised, rows, customers, vendors, locations, products]
Enhanced(raised, rows, customers, vendors, locations, products) ==
    [raised |-> raised, rows |-> rows, customers |-> customers,
     vendors |-> vendors, locations |-> locations, products |-> products]

CreateEnhanced(t) ==
    IF t.cost = "text" /\ t.rows # <<>>
    THEN Enhanced(TRUE, <<>>, <<>>, <<>>, <<>>, <<>>)
    ELSE LET r0 == WithProfit(t)
             customers == GroupStats(r0, "customer")
             m1 == MergeLeft(r0, customers, "customer")
             r1 == [i \in 1..Len(m1) |-> WithCustomer(m1[i].row, m1[i].found)]
             vendors == GroupStats(r1, "vendor")
             m2 == MergeLeft(r1, vendors, "vendor")
             r2 == [i \in 1..Len(m2) |-> WithVendor(m2[i].row, m2[i].found)]
             \* a table without purchase_location has no Location columns; the
             \* two fields are kept, empty, so that every row has one shape
             locations == IF t.hasLocation THEN GroupStats(r2, "location") ELSE <<>>
             m3 == MergeLeft(r2, locations, "location")
             r3 == [i \in 1..Len(m3) |-> WithLocation(m3[i].row, m3[i].found)]
             products == ProductStats(r3)
             m4 == MergeLeft(r3, products, "product")
             r4 == [i \in 1..Len(m4) |-> WithProduct(m4[i].row, m4[i].found)]
         IN  Enhanced(FALSE, r4, customers, vendors, locations, products)

\* --- create_summary_tables

Metric(name, value) == [Metric |-> name, Value |-> value]

\* 'Profit' in purchases_df.columns: create_enhanced_datasets always adds it
HasProfitColumn(t) == TRUE

\* x / y * 100 on two floats
Percent(x, y) == IF y = 0 THEN (IF x = 0 THEN NaN ELSE Inf(IF x > 0 THEN 1 ELSE 0 - 1))
                 ELSE Ratio(x * 100, y)

Kpis(t, rows) ==
    LET prices == ColumnOf(rows, "price")
        sales == SumCells(prices)
        counted == Len(SelectSeq(prices, LAMBDA c : c.k # "null"))
    IN  << Metric("Total Sales", Whole(sales)),
           Metric("Total Transactions", Whole(Len(rows))),
           Metric("Average Basket", IF counted = 0 THEN NaN ELSE Ratio(sales, counted)),
           Metric("Total Customers", Whole(Cardinality(GroupKeys(rows, "customer")))),
           Metric("Total Vendors", Whole(Cardinality(GroupKeys(rows, "vendor")))) >>
        \o (IF HasProfitColumn(t)
            THEN << Metric("Total Profit", Whole(SumCells(ColumnOf(rows, "Profit")))),
                    Metric("Profit Margin",
                           Percent(SumCells(ColumnOf(rows, "Profit")), sales)) >>
            ELSE <<>>)

\* sort_values(total, ascending=False): the order among equal totals is the
\* sort's own; the two tried are key order and reverse key order
RECURSIVE SortDescending(_, _)
SortDescending(groups, tie) ==
    IF groups = {} THEN <<>>
    ELSE LET top == CHOOSE g \in groups : \A h \in groups :
                       \/ g.total > h.total
                       \/ /\ g.total = h.total
                          /\ IF tie = "first" THEN g.key =< h.key ELSE g.key >= h.key
         IN  <<top>> \o SortDescending(groups \ {top}, tie)

\* the frame as it is, no rows cut
AllRows(s, n) == s

\* DataFrame.head(n)
HeadRows(s, n) == SubSeq(s, 1, IF Len(s) < n THEN Len(s) ELSE n)

\* groupby('vendor_name') ... sort_values('TotalSales', ascending=False).head(20)
TopVendors(rows, tie) ==
    LET g == GroupStats(rows, "vendor")
    IN  HeadRows(SortDescending({g[i] : i \in 1..Len(g)}, tie), TopVendorsLimit)

\* groupby('customer_guid') ... sort_values('TotalSpent', ascending=False).head(50)
TopCustomers(rows, tie) ==
    LET g == GroupStats(rows, "customer")
    IN  HeadRows(SortDescending({g[i] : i \in 1..Len(g)}, tie), TopCustomersLimit)

Summaries(kpis, vendors, customers) ==
    [kpis |-> kpis, top_vendors |-> vendors, top_customers |-> customers]

NoEnhanced == Enhanced(FALSE, <<>>, <<>>, <<>>, <<>>, <<>>)
NoSummaries == Summaries(<<>>, <<>>, <<>>)

EnrichIdle ==
    /\ etab = Table(<<>>, "absent", FALSE)
    /\ estage = "idle"
    /\ eenh = NoEnhanced
    /\ esum = NoSummaries

EnrichInit ==
    /\ etab \in PurchaseTables
    /\ estage = "start"
    /\ eenh = NoEnhanced
    /\ esum = NoSummaries

\* create_enhanced_datasets, lines 58 to 113
EEnrich ==
    /\ estage = "start"
    /\ eenh' = CreateEnhanced(etab)
    /\ estage' = IF eenh'.raised THEN "raised" ELSE "enriched"
    /\ UNCHANGED <<etab, esum>>
    /\ UNCHANGED <<refreshVars, loadVars, preVars, timeVars, toolVars>>

\* create_summary_tables(purchases_enhanced, checkins_enhanced)
ESummarise ==
    /\ estage = "enriched"
    /\ \E tie \in {"first", "last"} :
          esum' = Summaries(Kpis(etab, eenh.rows),
                            TopVendors(eenh.rows, tie),
                            TopCustomers(eenh.rows, tie))
    /\ estage' = "summarised"
    /\ UNCHANGED <<etab, eenh>>
    /\ UNCHANGED <<refreshVars, loadVars, preVars, timeVars, toolVars>>

-----------------------------------------------------------------------------
(* The specifications                                                       *)

-----------------------------------------------------------------------------
(* The cached loader: @st.cache_data(persist=True) around load_data         *)

CacheWorkbooks ==
    { <<Sheet(shPurchases, tblPurchases), Sheet(shCheckins, tblCheckins)>>,
      <<Sheet(shPurchases, tblPurchasesPlain)>> }

\* the default local file and the file behind the URL, as they are now
CacheWorlds ==
    [local :
        {Source(FALSE, "none", FALSE, TRUE, FALSE, 200, "ok", w) : w \in CacheWorkbooks}
        \cup {Source(FALSE, "none", FALSE, FALSE, FALSE, 200, "ok", <<>>)},
     remote :
        {Source(TRUE, "none", FALSE, TRUE, TRUE, 200, "ok", w) : w \in CacheWorkbooks}
        \cup {Source(TRUE, "none", FALSE, TRUE, TRUE, 404, "ok", <<>>)}]

\* the two calls main makes: load_data() and load_data(sharepoint_url=...)
CacheArgs == {"local", "sharepoint"}

CacheIdle ==
    /\ cworld = [local |-> Source(FALSE, "none", FALSE, FALSE, FALSE, 200, "ok", <<>>),
                 remote |-> Source(TRUE, "none", FALSE, TRUE, TRUE, 404, "ok", <<>>)]
    /\ ccache = [local |-> <<>>, sharepoint |-> <<>>]
    /\ cres = <<>>

CacheInit ==
    /\ cworld \in CacheWorlds
    /\ ccache = [local |-> <<>>, sharepoint |-> <<>>]
    /\ cres = <<>>

\* a call through the cache: the key is the arguments; an entry is returned
\* without running load_data; a call that raises stores nothing
CachedLoad(a) ==
    /\ LET src == IF a = "sharepoint" THEN cworld.remote ELSE cworld.local
           hit == ccache[a] # <<>>
           value == IF hit THEN ccache[a][1].value ELSE LoadData(src)
       IN  /\ cres' = <<[args |-> a, read |-> src, value |-> value]>>
           /\ ccache' = IF hit \/ value.raised # "" THEN ccache
                        ELSE [ccache EXCEPT ![a] = <<[at |-> src, value |-> value]>>]
    /\ UNCHANGED cworld
    /\ UNCHANGED <<batchVars, fetchVars, syncVars, sessionVars>>

\* the workbook is replaced on disk or behind the URL
SourceChanges ==
    /\ \E w \in CacheWorlds : w # cworld /\ cworld' = w
    /\ UNCHANGED <<ccache, cres>>
    /\ UNCHANGED <<batchVars, fetchVars, syncVars, sessionVars>>

\* the process restarts: persist=True keeps the entries on disk
Restart ==
    /\ cres # <<>>
    /\ cres' = <<>>
    /\ UNCHANGED <<cworld, ccache>>
    /\ UNCHANGED <<batchVars, fetchVars, syncVars, sessionVars>>

-----------------------------------------------------------------------------
(* scripts/sync_sharepoint.main                                             *)

\* auth_methods: no authentication first, then basic authentication
AuthMethods == <<"anonymous", "basic">>

FetchStatuses == {NetworkError, 200, 401, 403}

\* response.content: a 200 may carry the workbook or a sign-in page
FetchBodies(status) ==
    IF status = 200 THEN {"workbook", "sign-in page"}
    ELSE IF status = NetworkError THEN {"none"} ELSE {"error page"}

\* '?e=' without 'download=' becomes '?download=1&e='
DownloadUrl(url) == IF url = "sharing" THEN "sharing with download=1" ELSE url

FetchInputs ==
    [username : BOOLEAN, password : BOOLEAN,
     url : {"unset", "sharing", "direct"},
     file : {<<"", "absent">>, <<"", "old">>}]

\* a loop without the else clause: the last response is saved whatever it is
NoForElse(i, status) ==
    IF status = 200 \/ i >= 2 THEN "save" ELSE "get"

\* the for loop with its else: break on 200, exit when the methods are used up
AfterAttempt(i, status) ==
    IF status = 200 THEN "save"
    ELSE IF i < Len(AuthMethods) THEN "get" ELSE "exit"

FetchIdle ==
    /\ fin = [username |-> FALSE, password |-> FALSE, url |-> "unset",
              file |-> <<"", "absent">>]
    /\ fpc = "idle"
    /\ ftried = <<>>
    /\ ffile = <<"", "absent">>
    /\ fexit = "none"

FetchInit ==
    /\ fin \in FetchInputs
    /\ fpc = "start"
    /\ ftried = <<>>
    /\ ffile = fin.file
    /\ fexit = "none"

\* the three environment variables must be set
FStart ==
    /\ fpc = "start"
    /\ IF fin.username /\ fin.password /\ fin.url # "unset"
       THEN fpc' = "get" /\ fexit' = fexit
       ELSE fpc' = "exit" /\ fexit' = "1"
    /\ UNCHANGED <<fin, ftried, ffile>>
    /\ UNCHANGED <<batchVars, cacheVars, syncVars, sessionVars>>

\* one requests.get of the loop; an exception is the status NetworkError
FGet ==
    /\ fpc = "get"
    /\ LET i == Len(ftried) + 1
       IN  \E status \in FetchStatuses : \E body \in FetchBodies(status) :
              /\ ftried' = Append(ftried, [auth |-> AuthMethods[i],
                                           url |-> DownloadUrl(fin.url),
                                           status |-> status, body |-> body])
              /\ fpc' = AfterAttempt(i, status)
              /\ fexit' = IF AfterAttempt(i, status) = "exit" THEN "1" ELSE fexit
    /\ UNCHANGED <<fin, ffile>>
    /\ UNCHANGED <<batchVars, cacheVars, syncVars, sessionVars>>

\* open(output_path, 'wb') and f.write(response.content); an error of open
\* leaves the file, an error of write leaves it truncated; both exit 1
FSave ==
    /\ fpc = "save"
    /\ LET last == ftried[Len(ftried)]
       IN  \/ ffile' = <<last.auth, last.body>> /\ fexit' = "0"
           \/ ffile' = ffile /\ fexit' = "1"
           \/ ffile' = <<last.auth, "truncated">> /\ fexit' = "1"
    /\ fpc' = "exit"
    /\ UNCHANGED <<fin, ftried>>
    /\ UNCHANGED <<batchVars, cacheVars, syncVars, sessionVars>>

-----------------------------------------------------------------------------
(* sync_data.sync_data                                                      *)

SyncInputs ==
    [master : BOOLEAN,        \* RETAIL.dataMart V2.xlsx exists
     same : BOOLEAN,          \* it equals the committed retail_data.xlsx
     otherStaged : BOOLEAN,   \* the index already holds another change
     copy : BOOLEAN, add : BOOLEAN, commit : BOOLEAN, push : BOOLEAN]

\* the work tree file, the index, and the commits made and pushed by the run
InitialRepo(in) ==
    [file |-> "committed",
     staged |-> IF in.otherStaged THEN {"other"} ELSE {},
     commits |-> 0, pushed |-> 0]

\* a run that commits without looking at the index
CommitAnyway(rc) == "commit"

\* git diff --cached --quiet: return code 0 is 'nothing staged' and returns
AfterDiff(rc) == IF rc = 0 THEN "return" ELSE "commit"

SyncIdle ==
    /\ sdIn = [master |-> FALSE, same |-> FALSE, otherStaged |-> FALSE,
               copy |-> FALSE, add |-> FALSE, commit |-> FALSE, push |-> FALSE]
    /\ sdPc = "idle"
    /\ sdLog = <<>>
    /\ sdRepo = [file |-> "committed", staged |-> {}, commits |-> 0, pushed |-> 0]
    /\ sdExit = "none"

SyncInit ==
    /\ sdIn \in SyncInputs
    /\ sdPc = "start"
    /\ sdLog = <<>>
    /\ sdRepo = InitialRepo(sdIn)
    /\ sdExit = "none"

\* if not master_file.exists(): sys.exit(1)
SdCheck ==
    /\ sdPc = "start"
    /\ IF sdIn.master
       THEN sdPc' = "copy" /\ sdExit' = sdExit
       ELSE sdPc' = "exit" /\ sdExit' = "1"
    /\ UNCHANGED <<sdIn, sdLog, sdRepo>>
    /\ UNCHANGED <<batchVars, cacheVars, fetchVars, sessionVars>>

\* shutil.copy2(master_file, github_file); an error may leave a partial file
SdCopy ==
    /\ sdPc = "copy"
    /\ IF sdIn.copy
       THEN /\ sdRepo' = [sdRepo EXCEPT
                            !.file = IF sdIn.same THEN "committed" ELSE "master"]
            /\ sdLog' = Append(sdLog, [step |-> "copy", rc |-> 0])
            /\ sdPc' = "add" /\ sdExit' = sdExit
       ELSE /\ \E f \in {sdRepo.file, "partial"} :
                  sdRepo' = [sdRepo EXCEPT !.file = f]
            /\ sdLog' = Append(sdLog, [step |-> "copy", rc |-> 1])
            /\ sdPc' = "exit" /\ sdExit' = "1"
    /\ UNCHANGED sdIn
    /\ UNCHANGED <<batchVars, cacheVars, fetchVars, sessionVars>>

\* git add retail_data.xlsx, check=True
SdAdd ==
    /\ sdPc = "add"
    /\ IF sdIn.add
       THEN /\ sdRepo' = [sdRepo EXCEPT
                            !.staged = IF sdRepo.file = "committed" THEN @
                                       ELSE @ \cup {"data"}]
            /\ sdLog' = Append(sdLog, [step |-> "add", rc |-> 0])
            /\ sdPc' = "diff" /\ sdExit' = sdExit
       ELSE /\ sdRepo' = sdRepo
            /\ sdLog' = Append(sdLog, [step |-> "add", rc |-> 128])
            /\ sdPc' = "exit" /\ sdExit' = "1"
    /\ UNCHANGED sdIn
    /\ UNCHANGED <<batchVars, cacheVars, fetchVars, sessionVars>>

\* git diff --cached --quiet, no check: 1 when the index differs from HEAD
SdDiff ==
    /\ sdPc = "diff"
    /\ LET rc == IF sdRepo.staged = {} THEN 0 ELSE 1
       IN  /\ sdLog' = Append(sdLog, [step |-> "diff", rc |-> rc])
           /\ IF AfterDiff(rc) = "return"
              THEN sdPc' = "exit" /\ sdExit' = "0"
              ELSE sdPc' = "commit" /\ sdExit' = sdExit
    /\ UNCHANGED <<sdIn, sdRepo>>
    /\ UNCHANGED <<batchVars, cacheVars, fetchVars, sessionVars>>

\* git commit -m ..., check=True: commits the whole index
SdCommit ==
    /\ sdPc = "commit"
    /\ IF sdIn.commit /\ sdRepo.staged # {}
       THEN /\ sdRepo' = [sdRepo EXCEPT !.staged = {}, !.commits = @ + 1]
            /\ sdLog' = Append(sdLog, [step |-> "commit", rc |-> 0])
            /\ sdPc' = "push" /\ sdExit' = sdExit
       ELSE /\ sdRepo' = sdRepo
            /\ sdLog' = Append(sdLog, [step |-> "commit", rc |-> 1])
            /\ sdPc' = "exit" /\ sdExit' = "1"
    /\ UNCHANGED sdIn
    /\ UNCHANGED <<batchVars, cacheVars, fetchVars, sessionVars>>

\* git push, check=True; then the function returns
SdPush ==
    /\ sdPc = "push"
    /\ IF sdIn.push
       THEN /\ sdRepo' = [sdRepo EXCEPT !.pushed = sdRepo.commits]
            /\ sdLog' = Append(sdLog, [step |-> "push", rc |-> 0])
            /\ sdExit' = "0"
       ELSE /\ sdRepo' = sdRepo
            /\ sdLog' = Append(sdLog, [step |-> "push", rc |-> 1])
            /\ sdExit' = "1"
    /\ sdPc' = "exit"
    /\ UNCHANGED sdIn
    /\ UNCHANGED <<batchVars, cacheVars, fetchVars, sessionVars>>

-----------------------------------------------------------------------------
(* retail_dashboard.check_password and the head of main, over one session   *)

MaxSubmissions == 3

NumSessions == 2

\* the browser sessions; st.session_state is one mapping per session
Sessions == 1..NumSessions

Secret == "L6xQ@J%S@rGP"

\* what a visitor may type in the password box
Typed == {Secret, "l6xq@j%s@rgp", "guess", ""}

DataSources == {"Local File", "SharePoint", "SharePoint without URL"}

\* a callback that accepts whatever is typed
AnyText(text) == TRUE

\* password_entered: st.session_state["password"] == "L6xQ@J%S@rGP"
Matches(text) == text = Secret

SessionIdle ==
    /\ ssCorrect = [u \in Sessions |-> "unset"]
    /\ ssPassword = [u \in Sessions |-> <<>>]
    /\ ssLast = [u \in Sessions |-> <<>>]
    /\ ssSource = [u \in Sessions |-> "Local File"]
    /\ ssPage = [u \in Sessions |-> "closed"]
    /\ ssPos = [u \in Sessions |-> "idle"]
    /\ ssSubmits = [u \in Sessions |-> 0]

\* new sessions: empty session state, the script about to run
SessionInit ==
    /\ ssCorrect = [u \in Sessions |-> "unset"]
    /\ ssPassword = [u \in Sessions |-> <<>>]
    /\ ssLast = [u \in Sessions |-> <<>>]
    /\ ssSource = [u \in Sessions |-> "Local File"]
    /\ ssPage = [u \in Sessions |-> "none"]
    /\ ssPos = [u \in Sessions |-> "rerun"]
    /\ ssSubmits = [u \in Sessions |-> 0]

\* the text_input changes: the widget value is stored under its key, then
\* on_change=password_entered runs, then the script reruns
Submit(u, text) ==
    /\ ssPos[u] = "waiting"
    /\ ssPage[u] = "password"
    /\ ssPassword[u] # <<text>>
    /\ ssSubmits[u] < MaxSubmissions
    /\ IF Matches(text)
       THEN /\ ssCorrect' = [ssCorrect EXCEPT ![u] = "True"]
            /\ ssPassword' = [ssPassword EXCEPT ![u] = <<>>]
       ELSE /\ ssCorrect' = [ssCorrect EXCEPT ![u] = "False"]
            /\ ssPassword' = [ssPassword EXCEPT ![u] = <<text>>]
    /\ ssLast' = [ssLast EXCEPT ![u] = <<text>>]
    /\ ssSubmits' = [ssSubmits EXCEPT ![u] = @ + 1]
    /\ ssPos' = [ssPos EXCEPT ![u] = "rerun"]
    /\ UNCHANGED <<ssSource, ssPage>>
    /\ UNCHANGED <<batchVars, cacheVars, fetchVars, syncVars>>

\* the sidebar radio and URL box, on the page only behind the gate
SelectSource(u, src) ==
    /\ ssPos[u] = "waiting"
    /\ ssPage[u] \in {"dashboard", "url prompt"}
    /\ src # ssSource[u]
    /\ ssSource' = [ssSource EXCEPT ![u] = src]
    /\ ssPos' = [ssPos EXCEPT ![u] = "rerun"]
    /\ UNCHANGED <<ssCorrect, ssPassword, ssLast, ssPage, ssSubmits>>
    /\ UNCHANGED <<batchVars, cacheVars, fetchVars, syncVars>>

\* any other rerun of the script in the session
Rerun(u) ==
    /\ ssPos[u] = "waiting"
    /\ ssPos' = [ssPos EXCEPT ![u] = "rerun"]
    /\ UNCHANGED <<ssCorrect, ssPassword, ssLast, ssSource, ssPage, ssSubmits>>
    /\ UNCHANGED <<batchVars, cacheVars, fetchVars, syncVars>>

\* main: if not check_password(): st.stop(); then the sidebar, load_data and
\* the page. The text_input that is drawn holds "" until something is typed.
RunScript(u) ==
    /\ ssPos[u] = "rerun"
    /\ IF ssCorrect[u] = "True"
       THEN /\ ssPage' = [ssPage EXCEPT ![u] =
                            IF ssSource[u] = "SharePoint without URL"
                            THEN "url prompt" ELSE "dashboard"]
            /\ ssPassword' = [ssPassword EXCEPT ![u] = <<>>]
       ELSE /\ ssPage' = [ssPage EXCEPT ![u] = "password"]
            /\ ssPassword' = [ssPassword EXCEPT ![u] =
                                IF @ = <<>> THEN <<"">> ELSE @]
    /\ ssPos' = [ssPos EXCEPT ![u] = "waiting"]
    /\ UNCHANGED <<ssCorrect, ssLast, ssSource, ssSubmits>>
    /\ UNCHANGED <<batchVars, cacheVars, fetchVars, syncVars>>

ToolsIdle == CacheIdle /\ FetchIdle /\ SyncIdle /\ SessionIdle

BatchIdle == RefreshIdle /\ LoadIdle /\ PreIdle /\ TimeIdle /\ EnrichIdle

Init == RefreshInit /\ LoadIdle /\ PreIdle /\ TimeIdle /\ EnrichIdle /\ ToolsIdle

Next ==
    \/ \E r \in Runs : Start(r)
    \/ \E r \in Runs : BackupPrevious(r)
    \/ \E r \in Runs : ExportMkdir(r)
    \/ \E r \in Runs : ExportProcess(r)
    \/ \E r \in Runs : ExportWrite(r)
    \/ \E r \in Runs : Verify(r)
    \/ \E r \in Runs : Cleanup(r)
    \/ \E r \in Runs : Summary(r)
    \/ \E r \in Runs : Restore(r)

Spec == Init /\ [][Next]_vars

NextOverlapping == Next \/ \E r \in Runs : StartOverlapping(r)

SpecOverlapping == Init /\ [][NextOverlapping]_vars

InitLoad == RefreshIdle /\ LoadInit /\ PreIdle /\ TimeIdle /\ EnrichIdle /\ ToolsIdle

NextLoad ==
    \/ LLoad
    \/ LPreprocess
    \/ LEnrichPurchases
    \/ LEnrichCheckins
    \/ LSummarise
    \/ LExport

SpecLoad == InitLoad /\ [][NextLoad]_vars

InitPre == RefreshIdle /\ LoadIdle /\ PreInit /\ TimeIdle /\ EnrichIdle /\ ToolsIdle

NextPre == PreOnce \/ PreTwice

SpecPre == InitPre /\ [][NextPre]_vars

InitTime == RefreshIdle /\ LoadIdle /\ PreIdle /\ TimeInit /\ EnrichIdle /\ ToolsIdle

NextTime == EnricherPeriod \/ DashboardPeriod

SpecTime == InitTime /\ [][NextTime]_vars

InitEnrich == RefreshIdle /\ LoadIdle /\ PreIdle /\ TimeIdle /\ EnrichInit /\ ToolsIdle

NextEnrich == EEnrich \/ ESummarise

SpecEnrich == InitEnrich /\ [][NextEnrich]_vars

InitCache == BatchIdle /\ CacheInit /\ FetchIdle /\ SyncIdle /\ SessionIdle

NextCache ==
    \/ \E a \in CacheArgs : CachedLoad(a)
    \/ SourceChanges
    \/ Restart

SpecCache == InitCache /\ [][NextCache]_vars

InitFetch == BatchIdle /\ CacheIdle /\ FetchInit /\ SyncIdle /\ SessionIdle

NextFetch == FStart \/ FGet \/ FSave

SpecFetch == InitFetch /\ [][NextFetch]_vars

InitSync == BatchIdle /\ CacheIdle /\ FetchIdle /\ SyncInit /\ SessionIdle

NextSync == SdCheck \/ SdCopy \/ SdAdd \/ SdDiff \/ SdCommit \/ SdPush

SpecSync == InitSync /\ [][NextSync]_vars

InitSession == BatchIdle /\ CacheIdle /\ FetchIdle /\ SyncIdle /\ SessionInit

NextSession ==
    \/ \E u \in Sessions : \E text \in Typed : Submit(u, text)
    \/ \E u \in Sessions : \E src \in DataSources : SelectSource(u, src)
    \/ \E u \in Sessions : Rerun(u)
    \/ \E u \in Sessions : RunScript(u)

SpecSession == InitSession /\ [][NextSession]_vars

-----------------------------------------------------------------------------
(* Properties of the refresh orchestrator (Spec)                            *)

\* run r has returned and no later run has started
Returned(r) == pc[r] = "done" /\ \A q \in Runs : q > r => pc[q] = "idle"

RaisedAfterBackup(r) == failed[r] \notin {"", "backup"}

\* C1: a refresh run that starts with an existing export directory and in
\* which a step after the backup raises returns False and leaves in the export
\* directory exactly the previous export.
C1_FailedRunRestoresPreviousExport ==
    \A r \in Runs :
        (Returned(r) /\ prevOut[r] # <<>> /\ RaisedAfterBackup(r))
            => (out = prevOut[r] /\ ret[r] = "False")

\* The same, for the runs whose backup name was not already taken: what the
\* restore does achieve.
RestoresWhenBackupNameIsFree ==
    \A r \in Runs :
        (/\ Returned(r) /\ prevOut[r] # <<>> /\ RaisedAfterBackup(r)
         /\ BackupIndex(prevBackups[r], bdir[r]) = 0)
            => (out = prevOut[r] /\ ret[r] = "False")

\* C2: when the source is unavailable (load_data raises) the run returns
\* False and no export directory or export file exists afterwards that did not
\* exist before the run, also when there was no export directory at the start.
C2_SourceUnavailableLeavesNoOutput ==
    \A r \in Runs :
        (Returned(r) /\ failed[r] = "load")
            => /\ ret[r] = "False"
               /\ out # <<>> => prevOut[r] # <<>>
               /\ out # <<>> => out[1].files \subseteq prevOut[r][1].files

-----------------------------------------------------------------------------
(* Properties of the loader and the batch pipeline (SpecLoad)               *)

LoadReturned == lstage # "start" /\ lres.raised = ""

NamesPurchase(sheet) == Contains(sPurchase, Lower(sheet.name))
NamesCheckin(sheet) == Contains(sCheckin, Lower(sheet.name))

IsLocal == ~lin.url
IsRemote == lin.url

\* the file was found (local) or fetched with a status that does not raise
Obtained ==
    IF lin.url THEN lin.http # NetworkError /\ ~RaisesForStatus(lin.http)
    ELSE IF lin.filepath = "none" THEN lin.masterExists \/ lin.githubExists
    ELSE lin.givenExists

\* C3: the purchases table is the first sheet, in workbook order, whose name
\* contains "purchase" in any letter case, and the first sheet of the workbook
\* when no name does; for the local file and for the remote file alike.
C3_PurchasesIsFirstPurchaseSheet ==
    (LoadReturned /\ ~lres.degraded) =>
        \E i \in 1..Len(lin.wb) :
            /\ lres.sheet = lin.wb[i].name
            /\ lres.purchases = lin.wb[i].table
            /\ IF \E j \in 1..Len(lin.wb) : NamesPurchase(lin.wb[j])
               THEN NamesPurchase(lin.wb[i])
                    /\ \A j \in 1..(i - 1) : ~NamesPurchase(lin.wb[j])
               ELSE i = 1

\* a remote workbook with two purchase sheets, the first in capitals, behind
\* a sheet that is not one; and a local workbook with no purchase sheet at all
C3_Witness ==
    /\ LoadReturned /\ IsRemote /\ Len(lin.wb) = 3
    /\ lin.wb[1].name = shSheet1
    /\ lin.wb[2].name = shPurchaseUpper
    /\ lin.wb[3].name = shPurchases
    /\ lres.sheet = shPurchaseUpper

\* C4: with no sheet named "checkin" the loader returns a table of zero rows
\* for the check-ins, the pipeline (preprocess, enrich, summarise, export) does
\* not raise on a purchases sheet that has the purchase columns, no step on
\* the check-ins raises on any workbook, no check-in column is derived and no
\* checkins_enhanced file is written.
C4_NoCheckinSheetIsHarmless ==
    (LoadReturned /\ \A i \in 1..Len(lin.wb) : ~NamesCheckin(lin.wb[i])) =>
        /\ IsEmpty(lres.checkins) /\ lres.checkins.nrows = 0
        /\ ~cenh.raised
        /\ lraised # "checkins"
        /\ cenh.derived = {}
        /\ IsEmpty(cenh.table)
        /\ "checkins_enhanced.csv" \notin lout.files
        /\ (lstage = "raised" => penh.raised)
        /\ (lres.purchases \in {tblPurchases, tblPurchasesPlain}
               => lstage # "raised")

\* the whole pipeline ran to the export on a workbook of a purchases sheet
\* and a sheet called "Check-ins", which is no check-in sheet for the loader
C4_Witness ==
    /\ lstage = "exported"
    /\ Len(lin.wb) = 2
    /\ lin.wb[1].name = shPurchases
    /\ lin.wb[2].name = shCheckDashIns
    /\ "purchases_enhanced.csv" \in lout.files
    /\ "checkins_enhanced.csv" \notin lout.files

\* C5: without a path and without a URL, load_data reads RETAIL.dataMart
\* V2.xlsx when it exists, retail_data.xlsx only when the first does not, and
\* raises FileNotFoundError exactly when neither exists.
C5_PrimaryThenFallbackFile ==
    (IsLocal /\ lin.filepath = "none" /\ lstage # "start") =>
        /\ lin.masterExists => lres.file = "master"
        /\ (~lin.masterExists /\ lin.githubExists) => lres.file = "github"
        /\ (lres.raised = "FileNotFoundError")
             <=> (~lin.masterExists /\ ~lin.githubExists)

C5_Witness ==
    /\ IsLocal /\ lin.filepath = "none" /\ LoadReturned
    /\ lin.masterExists /\ lin.githubExists
    /\ lres.file = "master"

Is2xx(status) == status >= 200 /\ status < 300

\* C6: a remote load makes exactly one GET; a network error or a response
\* that is not 2xx raises FileNotFoundError, and no local file is read.
C6_OneGetAndNon2xxFails ==
    (IsRemote /\ lstage # "start") =>
        /\ lres.gets = 1
        /\ lres.file = "remote"
        /\ (lin.http = NetworkError \/ ~Is2xx(lin.http))
              => lres.raised = "FileNotFoundError"

\* The same with raise_for_status's own range: what the loader does ensure.
OneGetAnd4xx5xxFails ==
    (IsRemote /\ lstage # "start") =>
        /\ lres.gets = 1
        /\ lres.file = "remote"
        /\ (lin.http = NetworkError \/ RaisesForStatus(lin.http) \/ lin.parse # "ok")
              <=> lres.raised = "FileNotFoundError"

\* C7: a file that was found or fetched and cannot be read as a workbook of
\* several sheets does not make the load fail: it is loaded as one purchases
\* sheet with an empty check-ins table, locally and remotely.
C7_UnparseableWorkbookDegrades ==
    (lstage # "start" /\ Obtained /\ lin.parse # "ok") =>
        /\ lres.raised = ""
        /\ lres.purchases = lin.wb[1].table
        /\ IsEmpty(lres.checkins)

\* C7 as the loader has it: only the local path degrades, and only when the
\* first sheet can still be read on its own; otherwise the load raises (the
\* reader's exception locally, FileNotFoundError remotely).
C7_OnlyLocalFirstSheetFallback ==
    (lstage # "start" /\ Obtained /\ lin.parse # "ok") =>
        /\ (IsLocal /\ lin.parse = "multi") =>
              /\ lres.raised = ""
              /\ lres.degraded
              /\ lres.purchases = lin.wb[1].table
              /\ lres.checkins = EmptyFrame
        /\ (IsLocal /\ lin.parse = "corrupt") => lres.raised = "Exception"
        /\ IsRemote => lres.raised = "FileNotFoundError"

\* a local file degraded to its first sheet although a later sheet is the
\* purchases sheet and a check-in sheet exists
C7_Witness ==
    /\ LoadReturned /\ IsLocal /\ lin.parse = "multi" /\ lres.degraded
    /\ Len(lin.wb) = 3
    /\ lin.wb[1].name = shSheet1
    /\ lin.wb[2].name = shPurchases
    /\ lin.wb[3].name = shCheckins
    /\ lres.purchases = lin.wb[1].table

-----------------------------------------------------------------------------
(* Properties of preprocess_data (SpecPre)                                  *)

\* C8: preprocess_data is idempotent: applied to its own result it returns
\* the same column names, column types and cell values.
C8_PreprocessIdempotent ==
    pstage = "twice" => (~pout2.raised /\ pout2.table = pout1.table)

\* the first pass trimmed a name, changed a dtype and made a null
C8_Witness ==
    /\ pstage = "twice"
    /\ ptab.nrows = 2
    /\ ptab.cols[1].name = cPurchaseDatePadded
    /\ ptab.cols[1].cells = <<TextDate(1), Junk>>
    /\ pout1.table.cols[1].name # ptab.cols[1].name
    /\ pout1.table.cols[1].dtype = "datetime"
    /\ pout1.table.cols[1].cells = <<Ts(1), Null>>

\* C9: after preprocess_data every column whose trimmed name contains "date"
\* holds timestamps (or the null marker), whether it was loaded as text, as
\* numbers or as timestamps, and no exception was raised.
C9_DateColumnsHoldTimestamps ==
    pstage # "start" =>
        /\ ~pout1.raised
        /\ \A i \in 1..Len(pout1.table.cols) :
              IsDateName(pout1.table.cols[i].name) =>
                 /\ pout1.table.cols[i].dtype = "datetime"
                 /\ \A r \in 1..pout1.table.nrows :
                       pout1.table.cols[i].cells[r].k \in {"ts", "null"}

\* the coercion the column's name asks for fails on this cell
FailsDate(c) == c.k = "text" /\ c.p # "date"
FailsNumber(dt, c) == (c.k = "text" /\ c.p # "num") \/ (c.k = "ts" /\ dt = "object")

\* C10: a cell that fails the date or number coercion becomes null, for that
\* cell only: the rows are as many as before and in the same order, and every
\* other cell keeps its (coerced) value.
C10_FailedCellAloneBecomesNull ==
    (pstage # "start" /\ ~pout1.raised) =>
        /\ pout1.table.nrows = ptab.nrows
        /\ Len(pout1.table.cols) = Len(ptab.cols)
        /\ \A i \in 1..Len(ptab.cols) : \A r \in 1..ptab.nrows :
              LET name == pout1.table.cols[i].name
                  was == ptab.cols[i].cells[r]
                  now == pout1.table.cols[i].cells[r]
                  date == IsDateName(name) /\ ptab.cols[i].dtype = "object"
                  number == IsNumberName(name)
              IN  /\ (date /\ FailsDate(was)) => now.k = "null"
                  /\ (number /\ ~date /\ FailsNumber(ptab.cols[i].dtype, was))
                        => now.k = "null"
                  /\ (now.k = "null" /\ was.k # "null")
                        => ((date /\ FailsDate(was))
                            \/ (number /\ FailsNumber(ptab.cols[i].dtype, was)))
                  /\ (was.k # "null" /\ now.k # "null") => now.v = was.v
                  /\ (~date /\ ~number) => now = was

\* What C9 and C10 come to in the columns named for one coercion only:
\* a date column loaded as text or timestamps holds timestamps, and a failed
\* cell is null.
SingleRoleColumnsCoerce ==
    (pstage # "start" /\ ~pout1.raised) =>
        \A i \in 1..Len(ptab.cols) : \A r \in 1..ptab.nrows :
            LET name == pout1.table.cols[i].name
                was == ptab.cols[i].cells[r]
                now == pout1.table.cols[i].cells[r]
            IN  /\ (IsDateName(name) /\ ~IsNumberName(name)
                      /\ ptab.cols[i].dtype # "numeric")
                     => /\ pout1.table.cols[i].dtype = "datetime"
                        /\ now.k \in {"ts", "null"}
                        /\ FailsDate(was) => now.k = "null"
                /\ (IsNumberName(name) /\ ~IsDateName(name))
                     => /\ pout1.table.cols[i].dtype = "numeric"
                        /\ now.k \in {"num", "null"}
                        /\ FailsNumber(ptab.cols[i].dtype, was) => now.k = "null"

\* the name contains none of "date", "price", "amount" in any letter case
NamesNoCoercion(n) ==
    /\ ~Contains(sDate, Lower(n))
    /\ ~Contains(sPrice, Lower(n))
    /\ ~Contains(sAmount, Lower(n))

\* C11: preprocess_data only trims the column names and coerces the date,
\* price and amount columns: a column whose name contains none of "date",
\* "price", "amount" has the same type and the same values after as before,
\* and the table the caller passed in is never written.
C11_OtherColumnsAndInputUntouched ==
    /\ []((pstage # "start" /\ ~pout1.raised) =>
            /\ Len(pout1.table.cols) = Len(ptab.cols)
            /\ pout1.table.nrows = ptab.nrows
            /\ \A i \in 1..Len(ptab.cols) :
                  /\ pout1.table.cols[i].name = Strip(ptab.cols[i].name)
                  /\ NamesNoCoercion(ptab.cols[i].name)
                        => /\ pout1.table.cols[i].dtype = ptab.cols[i].dtype
                           /\ pout1.table.cols[i].cells = ptab.cols[i].cells)
    /\ [][pstage # "idle" => ptab' = ptab]_vars

\* a padded text date column was coerced next to a vendor column of text
\* that came through as it was
C11_Witness ==
    /\ pstage = "once" /\ ~pout1.raised
    /\ ptab.nrows = 2
    /\ ptab.cols[1].name = cPurchaseDatePadded
    /\ ptab.cols[1].cells = <<TextDate(1), Junk>>
    /\ pout1.table.cols[1].cells = <<Ts(1), Null>>
    /\ ptab.cols[2].name = cVendorName
    /\ ptab.cols[2].cells = <<Junk, Null>>
    /\ pout1.table.cols[2] = ptab.cols[2]

-----------------------------------------------------------------------------
(* Properties of the time-of-day category (SpecTime)                        *)

\* the enricher's category named by a label of the dashboard
CategoryOf(label) ==
    CASE label = "Morning (5AM-12PM)" -> "Morning"
      [] label = "Afternoon (12PM-5PM)" -> "Afternoon"
      [] label = "Evening (5PM-9PM)" -> "Evening"
      [] label = "Night (9PM-5AM)" -> "Night"
      [] OTHER -> "none"

\* C12: for every hour 0..23 the time-of-day category is one of Morning,
\* Afternoon, Evening, Night, with 5..11 Morning, 12..16 Afternoon, 17..20
\* Evening and every other hour Night, and the dashboard's function puts each
\* hour in the same category as the enricher's.
C12_TimePeriodBoundaries ==
    /\ tpEnricher \notin {"", "idle"} =>
          /\ tpEnricher \in {"Morning", "Afternoon", "Evening", "Night"}
          /\ tpEnricher = "Morning" <=> tin.hour \in 5..11
          /\ tpEnricher = "Afternoon" <=> tin.hour \in 12..16
          /\ tpEnricher = "Evening" <=> tin.hour \in 17..20
          /\ tpEnricher = "Night" <=> tin.hour \in (0..4) \cup (21..23)
    /\ (tpEnricher \notin {"", "idle"} /\ tpDashboard \notin {"", "idle"}) =>
          CategoryOf(tpDashboard) = tpEnricher

\* 11:59 is still morning for both functions
C12_Witness ==
    /\ tin = [hour |-> 11, minute |-> 59]
    /\ tpEnricher = "Morning"
    /\ tpDashboard = "Morning (5AM-12PM)"

-----------------------------------------------------------------------------
(* Properties of the enrichment and the summaries (SpecEnrich)              *)

Enriched_ == estage \in {"enriched", "summarised"}

\* the sum of the prices of the input rows with this key in column f
InputSales(f, key) ==
    SeqSum([i \in 1..Len(etab.rows) |->
              IF etab.rows[i][f] = key /\ etab.rows[i].price.k # "null"
              THEN etab.rows[i].price.v ELSE 0])

IsZero(m) == m.k = "ratio" /\ m.n = 0

\* C13: with a unit-cost column, on every enriched row Profit is the price
\* less the unit cost, ProfitMargin is 100 * Profit / price where the price
\* is above zero and 0 elsewhere; a zero or negative price raises nothing.
C13_ProfitAndMargin ==
    (estage # "start" /\ etab.cost = "numeric") =>
        /\ ~eenh.raised
        /\ \A i \in 1..Len(eenh.rows) :
              LET r == eenh.rows[i]
                  known == r.price.k # "null" /\ r.cost.k # "null"
              IN  /\ known => (r.Profit.k = "num" /\ r.Profit.v = r.price.v - r.cost.v)
                  /\ ~known => r.Profit.k = "null"
                  /\ (known /\ r.price.v > 0) =>
                        /\ r.ProfitMargin.k = "ratio"
                        /\ r.ProfitMargin.n * r.price.v
                             = 100 * r.Profit.v * r.ProfitMargin.d
                  /\ (r.price.k = "null" \/ r.price.v =< 0) => IsZero(r.ProfitMargin)

\* a sale at 100 that cost 60 next to a sale at price zero
C13_Witness ==
    /\ Enriched_ /\ etab.cost = "numeric"
    /\ \E i, j \in 1..Len(eenh.rows) :
          /\ eenh.rows[i].price = Num(100) /\ eenh.rows[i].cost = Num(60)
          /\ eenh.rows[i].Profit = Num(40)
          /\ eenh.rows[i].ProfitMargin = Ratio(4000, 100)
          /\ eenh.rows[j].price = Num(0) /\ eenh.rows[j].cost = Num(5)
          /\ eenh.rows[j].Profit = Num(0 - 5)
          /\ IsZero(eenh.rows[j].ProfitMargin)

\* C14: without a unit-cost column the enriched table still has Profit and
\* ProfitMargin, 0 on every row, and every vendor's total profit is 0.
C14_NoCostMeansZeroProfit ==
    (estage # "start" /\ etab.cost = "absent") =>
        /\ ~eenh.raised
        /\ \A i \in 1..Len(eenh.rows) :
              /\ eenh.rows[i].Profit = Num(0)
              /\ IsZero(eenh.rows[i].ProfitMargin)
              /\ eenh.rows[i].vendor # NoKey => eenh.rows[i].VendorTotalProfit = Num(0)
        /\ \A v \in 1..Len(eenh.vendors) : eenh.vendors[v].profit = 0

\* three rows without unit cost, two vendors
C14_Witness ==
    /\ Enriched_ /\ etab.cost = "absent"
    /\ Len(etab.rows) = 3
    /\ Len(eenh.vendors) = 2
    /\ \A i \in 1..Len(eenh.rows) : eenh.rows[i].Profit = Num(0)

\* ranks of a stats table are dense ranks by total, highest first
DenseRanked(stats) ==
    LET totals == {stats[i].total : i \in 1..Len(stats)}
    IN  /\ {stats[i].rank : i \in 1..Len(stats)} = 1..Cardinality(totals)
        /\ \A i, j \in 1..Len(stats) :
              /\ stats[i].total > stats[j].total => stats[i].rank < stats[j].rank
              /\ stats[i].total = stats[j].total => stats[i].rank = stats[j].rank

\* the stats table has one row for every key of column f, with its sales
GroupsOfInput(stats, f) ==
    /\ {stats[i].key : i \in 1..Len(stats)}
          = {etab.rows[i][f] : i \in 1..Len(etab.rows)} \ {NoKey}
    /\ \A i, j \in 1..Len(stats) : stats[i].key = stats[j].key => i = j
    /\ \A i \in 1..Len(stats) : stats[i].total = InputSales(f, stats[i].key)

\* C15: customer, vendor and location ranks are dense ranks by total sales,
\* highest first: rank 1 for the highest total, equal totals share a rank, the
\* ranks used are 1..k for k distinct totals, and every purchase row carries
\* the total and the rank of its own customer, vendor and location.
C15_DenseRanks ==
    (Enriched_) =>
        /\ GroupsOfInput(eenh.customers, "customer") /\ DenseRanked(eenh.customers)
        /\ GroupsOfInput(eenh.vendors, "vendor") /\ DenseRanked(eenh.vendors)
        /\ etab.hasLocation =>
              (GroupsOfInput(eenh.locations, "location") /\ DenseRanked(eenh.locations))
        /\ \A i \in 1..Len(eenh.rows) :
              LET r == eenh.rows[i]
              IN  /\ \A c \in 1..Len(eenh.customers) :
                        eenh.customers[c].key = r.customer =>
                           /\ r.CustomerTotalSpent = Num(eenh.customers[c].total)
                           /\ r.CustomerRank = Num(eenh.customers[c].rank)
                  /\ \A v \in 1..Len(eenh.vendors) :
                        eenh.vendors[v].key = r.vendor =>
                           /\ r.VendorTotalSales = Num(eenh.vendors[v].total)
                           /\ r.VendorRank = Num(eenh.vendors[v].rank)
                  /\ \A l \in 1..Len(eenh.locations) :
                        eenh.locations[l].key = r.location =>
                           /\ r.LocationTotalSales = Num(eenh.locations[l].total)
                           /\ r.LocationRank = Num(eenh.locations[l].rank)

\* customers spending 100, 100 and 50 ranked 1, 1, 2
C15_Witness ==
    /\ Enriched_
    /\ Len(eenh.customers) = 3
    /\ [i \in 1..3 |-> eenh.customers[i].total] = <<100, 100, 50>>
    /\ [i \in 1..3 |-> eenh.customers[i].rank] = <<1, 1, 2>>
    /\ \E i \in 1..Len(eenh.rows) :
          /\ eenh.rows[i].customer = 3
          /\ eenh.rows[i].CustomerTotalSpent = Num(50)
          /\ eenh.rows[i].CustomerRank = Num(2)

\* C16: enrichment only adds columns: purchases_enhanced has exactly one row
\* for every input purchase row, also when a product name is sold by more
\* than one vendor.
C16_OneRowPerPurchase ==
    (Enriched_) =>
        /\ Len(eenh.rows) = Len(etab.rows)
        /\ \A i \in 1..Len(etab.rows) :
              /\ eenh.rows[i].price = etab.rows[i].price
              /\ eenh.rows[i].customer = etab.rows[i].customer
              /\ eenh.rows[i].vendor = etab.rows[i].vendor
              /\ eenh.rows[i].product = etab.rows[i].product

\* What the enrichment does keep: one row for each purchase whose product is
\* sold by at most one vendor in the table.
OneRowPerPurchaseOfSingleVendorProducts ==
    (/\ Enriched_
     /\ \A i, j \in 1..Len(etab.rows) :
           (etab.rows[i].product = etab.rows[j].product
              /\ etab.rows[i].vendor # NoKey /\ etab.rows[j].vendor # NoKey)
             => etab.rows[i].vendor = etab.rows[j].vendor)
       => Len(eenh.rows) = Len(etab.rows)

InputTotalSales == SumCells(ColumnOf(etab.rows, "price"))

KpiValue(name) ==
    LET found == SelectSeq(esum.kpis, LAMBDA m : m.Metric = name)
    IN  found[1].Value

\* C17: the totals reconcile: the TotalSales of the rows of top_vendors add
\* up to the sum of purchase_price_w_discount over all purchase rows, and so
\* does the KPI Total Sales, with any number of vendors and with rows that
\* have no vendor name.
C17_TotalsReconcile ==
    estage = "summarised" =>
        /\ SeqSum([i \in 1..Len(esum.top_vendors) |-> esum.top_vendors[i].total])
              = InputTotalSales
        /\ KpiValue("Total Sales") = Whole(InputTotalSales)

\* What does reconcile: with every row naming a vendor, no product at two
\* vendors and at most TopVendorsLimit vendors.
TotalsReconcileForKeptVendors ==
    (/\ estage = "summarised"
     /\ Len(eenh.rows) = Len(etab.rows)
     /\ \A i \in 1..Len(etab.rows) : etab.rows[i].vendor # NoKey
     /\ Len(eenh.vendors) =< TopVendorsLimit)
       => /\ SeqSum([i \in 1..Len(esum.top_vendors) |-> esum.top_vendors[i].total])
                = InputTotalSales
          /\ KpiValue("Total Sales") = Whole(InputTotalSales)

MetricNames == [i \in 1..Len(esum.kpis) |-> esum.kpis[i].Metric]

BaselineMetrics ==
    <<"Total Sales", "Total Transactions", "Average Basket", "Total Customers",
      "Total Vendors">>

\* C18: kpis holds exactly the five baseline metrics when the input has no
\* unit-cost column; Total Profit and Profit Margin are added only when the
\* profit was computed from a unit-cost column.
C18_ProfitMetricsOnlyWithCost ==
    estage = "summarised" =>
        MetricNames = (IF etab.cost = "absent" THEN BaselineMetrics
                       ELSE BaselineMetrics \o <<"Total Profit", "Profit Margin">>)

\* What kpis does hold: the five baseline metrics first, always followed by
\* the two profit metrics.
KpisAlwaysSeven ==
    estage = "summarised" =>
        MetricNames = BaselineMetrics \o <<"Total Profit", "Profit Margin">>

Smaller(a, b) == IF a < b THEN a ELSE b

\* the rows of a top table are the n best: non-increasing totals, as many as
\* the limit allows, and no group left out has more than one kept
TopOf(top, f, limit) ==
    LET keys == {eenh.rows[i][f] : i \in 1..Len(eenh.rows)} \ {NoKey}
        kept == {top[i].key : i \in 1..Len(top)}
        sales(key) ==
            SeqSum([i \in 1..Len(eenh.rows) |->
                      IF eenh.rows[i][f] = key /\ eenh.rows[i].price.k # "null"
                      THEN eenh.rows[i].price.v ELSE 0])
    IN  /\ Len(top) = Smaller(limit, Cardinality(keys))
        /\ kept \subseteq keys
        /\ Cardinality(kept) = Len(top)
        /\ \A i \in 1..Len(top) : top[i].total = sales(top[i].key)
        /\ \A i \in 1..(Len(top) - 1) : top[i].total >= top[i + 1].total
        /\ \A out_ \in keys \ kept : \A i \in 1..Len(top) :
              sales(out_) =< top[i].total

\* C19: top_vendors has min(20, vendors) rows and top_customers has
\* min(50, customers) rows, each in non-increasing order of its total, and
\* nothing left out has a strictly larger total than something kept.
C19_TopTablesAreTheBest ==
    estage = "summarised" =>
        /\ TopOf(esum.top_vendors, "vendor", 20)
        /\ TopOf(esum.top_customers, "customer", 50)

\* 21 vendors and 51 customers cut to 20 and 50
C19_Witness ==
    /\ estage = "summarised"
    /\ Cardinality({etab.rows[i].vendor : i \in 1..Len(etab.rows)}) = 21
    /\ Cardinality({etab.rows[i].customer : i \in 1..Len(etab.rows)}) = 51
    /\ Len(esum.top_vendors) = 20
    /\ Len(esum.top_customers) = 50

-----------------------------------------------------------------------------
(* Properties of the metadata record (SpecLoad)                             *)

\* C20: files_exported in the metadata record holds exactly the names of the
\* data files written in that export: with empty check-ins or without the
\* location column it has no entry, name or null, for checkins_enhanced.csv or
\* top_locations.csv, and every name in it is a file of the export directory.
C20_FilesExportedAreTheFilesWritten ==
    lstage = "exported" =>
        /\ None \notin Range(lout.files_exported)
        /\ Range(lout.files_exported) \subseteq lout.files
        /\ lout.files \ {"metadata.json"} \subseteq Range(lout.files_exported)

\* What the list does hold: ten entries in a fixed order, each the name of a
\* file written or, in the place of a file that was skipped, None.
FilesExportedHasPlaceholders ==
    lstage = "exported" =>
        /\ Len(lout.files_exported) = 10
        /\ Range(lout.files_exported) \ {None} = lout.files \ {"metadata.json"}
        /\ (None \in Range(lout.files_exported))
              <=> ("checkins_enhanced.csv" \notin lout.files
                   \/ "top_locations.csv" \notin lout.files)

-----------------------------------------------------------------------------
(* Properties of the pipeline on tables with a column missing (SpecLoad)    *)

\* the purchases table has the date and the price column
HasDateAndPrice(t) ==
    LET names == {Strip(t.cols[i].name) : i \in 1..Len(t.cols)}
    IN  cPurchaseDate \in names /\ cPrice \in names

\* C21: a missing analytical column (location, unit cost, quantity, product
\* name, vendor name, customer identifier, the customer name of the
\* check-ins) is never a hard failure: on a purchases table with its date
\* and price the batch pipeline completes whatever else is absent.
C21_MissingColumnNeverFails ==
    (LoadReturned /\ HasDateAndPrice(lres.purchases)) => lstage # "raised"

\* What the pipeline tolerates: the location and the unit cost column may be
\* absent; any other column of the list missing makes the enrichment raise.
OnlyLocationAndCostAreOptional ==
    LET names == {Strip(lres.purchases.cols[i].name) :
                     i \in 1..Len(lres.purchases.cols)}
        cnames == {Strip(lres.checkins.cols[i].name) :
                      i \in 1..Len(lres.checkins.cols)}
    IN  (/\ LoadReturned
         /\ {cPurchaseDate, cPrice, cCustomerGuid, cVendorName, cProductName,
              cQuantity} \subseteq names
         /\ IsEmpty(lres.checkins) \/ cCustomerName \in cnames)
           => lstage # "raised"

-----------------------------------------------------------------------------
(* Properties of overlapping refresh runs (SpecOverlapping)                 *)

\* powerbi_data is the directory run r created, with the required files
OwnExportInPlace(r) ==
    /\ out # <<>>
    /\ out[1].gen = r
    /\ {"purchases_enhanced.csv", "kpis.csv", "metadata.json"} \subseteq out[1].files

\* run r has passed its checks and is at its return True, or has returned it
ReturningTrue(r) == pc[r] = "summary" \/ (pc[r] = "done" /\ ret[r] = "True")

\* C22: runs on one export directory are safe only one after another: as
\* long as no run was started while another was under way, a run that
\* returns True leaves the export directory it wrote in place; with an
\* overlap there is an interleaving in which it returns True although that
\* directory was moved away, removed or replaced by the other run.
C22_SerialRunsKeepTheirExport ==
    \A r \in Runs :
        (~overlap /\ ReturningTrue(r) /\ \A q \in Runs \ {r} : q > r => pc[q] = "idle")
            => OwnExportInPlace(r)

\* the first run returned True while the second, started during it, had
\* moved the first run's export into a backup and not yet written its own
C22_Witness ==
    /\ overlap
    /\ pc[1] = "done" /\ ret[1] = "True"
    /\ pc[2] \in {"mkdir", "load"}
    /\ ~OwnExportInPlace(1)
    /\ \E i \in 1..Len(backups) : backups[i].dir.gen = 1

-----------------------------------------------------------------------------
(* Properties of the check of the export and of the backups                 *)

RequiredInPlace ==
    out # <<>> /\ {"purchases_enhanced.csv", "kpis.csv", "metadata.json"} \subseteq out[1].files

\* C26: main returns True only when, at its check, purchases_enhanced.csv,
\* kpis.csv and metadata.json were all in the export directory (the one this
\* run wrote, when no other run overlapped); when one is missing the run
\* goes to the except block, which moves its backup back and returns False.
C26_TrueOnlyWithRequiredFiles ==
    [][\A r \in Runs :
          /\ (pc'[r] = "cleanup" /\ pc[r] # "cleanup")
                => (pc[r] = "verify" /\ RequiredInPlace /\ (~overlap => out[1].gen = r))
          /\ (pc[r] = "verify" /\ ~RequiredInPlace /\ pc'[r] # "verify")
                => (pc'[r] = "except" /\ failed'[r] = "verify")
          /\ (pc'[r] = "summary" /\ pc[r] # "summary") => pc[r] = "cleanup"
          /\ (ret'[r] = "True" /\ ret[r] # "True") => pc[r] = "summary"
          /\ (pc[r] = "except" /\ pc'[r] # "except")
                => /\ pc'[r] = "done" /\ ret'[r] = "False"
                   /\ BackupIndex(backups, bdir[r]) # 0
                         => /\ out' = <<backups[BackupIndex(backups, bdir[r])].dir>>
                            /\ BackupIndex(backups', bdir[r]) = 0
    ]_vars

\* a run whose check found a file missing (its directory had been moved by
\* an overlapping run) returned False
C26_Witness ==
    \E r \in Runs : pc[r] = "done" /\ failed[r] = "verify" /\ ret[r] = "False"

BackupNames(bs) == {bs[i].name : i \in 1..Len(bs)}

\* C27: after a successful run at most one backup directory remains, the
\* most recently created one (the backup of the export this run replaced,
\* when there was one); a failed run deletes no older backup.
C27_OneBackupKeptNoneLostOnFailure ==
    \A r \in Runs :
        /\ (Returned(r) /\ ret[r] = "True") =>
              /\ Len(backups) =< 1
              /\ prevOut[r] # <<>> =>
                    /\ Len(backups) = 1
                    /\ backups[1].name = bdir[r]
                    /\ backups[1].dir = prevOut[r][1] \/ backups[1].dir.sub = prevOut[r]
              /\ (prevOut[r] = <<>> /\ prevBackups[r] # <<>>) =>
                    backups = <<prevBackups[r][Len(prevBackups[r])]>>
        /\ (Returned(r) /\ ret[r] = "False") =>
              BackupNames(prevBackups[r]) \subseteq BackupNames(backups)

\* What holds after a failed run whose backup name was free: the backups are
\* those that were there before it.
FailedRunWithFreeNameKeepsBackups ==
    \A r \in Runs :
        (/\ Returned(r) /\ ret[r] = "False"
         /\ BackupIndex(prevBackups[r], bdir[r]) = 0
         /\ failed[r] # "cleanup")
            => backups = prevBackups[r]

-----------------------------------------------------------------------------
(* Properties the tests expect of load_data and preprocess_data             *)

\* C24: for every loaded purchases table, the output of preprocess_data has
\* the columns "Date" and "Sales" and at least one of "Store" or "Category".
C24_CanonicalColumns ==
    lstage = "preprocessed" =>
        LET names == ColumnNames(penh.table)
        IN  /\ <<"D","a","t","e">> \in names
            /\ <<"S","a","l","e","s">> \in names
            /\ \/ <<"S","t","o","r","e">> \in names
               \/ <<"C","a","t","e","g","o","r","y">> \in names

\* What preprocess_data does to the names: it strips them and renames nothing.
PreprocessKeepsStrippedNames ==
    lstage = "preprocessed" =>
        ColumnNames(penh.table) = {Strip(n) : n \in ColumnNames(lres.purchases)}

\* load_data: return purchases_df, checkins_df
ReturnValue(res) == [type |-> "tuple", items |-> <<res.purchases, res.checkins>>]

\* preprocess_data(v): df.copy() is the first statement, a tuple has no copy
PreprocessValue(v) ==
    IF v.type = "DataFrame" THEN PreprocessData(v.frame)
    ELSE [raised |-> TRUE, table |-> EmptyFrame]

\* C25: load_data() without arguments, the data file being present, returns
\* a single non-empty table that preprocess_data accepts as it is.
C25_LoadReturnsOneTable ==
    (/\ IsLocal /\ lin.filepath = "none"
     /\ lin.masterExists \/ lin.githubExists
     /\ LoadReturned)
        => /\ ReturnValue(lres).type = "DataFrame"
           /\ ~PreprocessValue(ReturnValue(lres)).raised

\* What load_data returns: the pair of the purchases and check-ins tables,
\* whose first item preprocess_data accepts.
LoadReturnsPairOfTables ==
    (IsLocal /\ lin.filepath = "none" /\ LoadReturned)
        => /\ ReturnValue(lres).type = "tuple"
           /\ Len(ReturnValue(lres).items) = 2
           /\ ~PreprocessData(ReturnValue(lres).items[1]).raised

-----------------------------------------------------------------------------
(* Properties of the cached loader                                          *)

\* C23: what a call of load_data returns depends only on the current content
\* of the source: a call after the source file changed returns the changed
\* content, and calls over the same content return the same tables.
C23_LoadsReadTheCurrentSource ==
    cres # <<>> => cres[1].value = LoadData(cres[1].read)

\* What the cache ensures: a call that returns gives the tables of the source
\* as it was at the first call with these arguments that returned.
CachedLoadReturnsFirstContent ==
    (cres # <<>> /\ cres[1].value.raised = "") =>
        LET entry == ccache[cres[1].args]
        IN  /\ entry # <<>>
            /\ cres[1].value = entry[1].value
            /\ cres[1].value = LoadData(entry[1].at)

-----------------------------------------------------------------------------
(* Properties of the two sync scripts                                       *)

Got200 == \E i \in 1..Len(ftried) : ftried[i].status = 200

\* C28: sync_sharepoint requests without authentication first and with basic
\* authentication only when the first request did not return 200; the local
\* workbook is written only from the body of a request that returned 200;
\* when no request returned 200 the script exits 1 and the file is untouched.
C28_FetchOrderAndOverwrite ==
    /\ Len(ftried) =< 2
    /\ \A i \in 1..Len(ftried) : ftried[i].auth = <<"anonymous", "basic">>[i]
    /\ Len(ftried) = 2 => ftried[1].status # 200
    /\ ffile # fin.file =>
          /\ ftried # <<>>
          /\ ftried[Len(ftried)].status = 200
          /\ ffile[1] = ftried[Len(ftried)].auth
          /\ ffile[2] \in {ftried[Len(ftried)].body, "truncated"}
    /\ fexit = "0" =>
          /\ ftried[Len(ftried)].status = 200
          /\ ffile = <<ftried[Len(ftried)].auth, ftried[Len(ftried)].body>>
    /\ (fpc = "exit" /\ ~Got200) => (fexit = "1" /\ ffile = fin.file)

\* the first request is refused, the second returns the workbook, which
\* replaces the old file
C28_Witness ==
    /\ fpc = "exit" /\ fexit = "0"
    /\ fin.file = <<"", "old">>
    /\ Len(ftried) = 2 /\ ftried[1].status = 403 /\ ftried[2].status = 200
    /\ ffile = <<"basic", "workbook">>

StepNames(log) == [i \in 1..Len(log) |-> log[i].step]

IsPrefix(a, b) == Len(a) =< Len(b) /\ a = SubSeq(b, 1, Len(a))

\* C29: sync_data runs copy, git add, git commit, git push in this order,
\* each step only after the one before succeeded; without the master file
\* nothing is copied or staged and the exit status is 1; when nothing is
\* staged neither commit nor push runs; push runs only after a commit of the
\* same run succeeded.
C29_StepsInOrder ==
    /\ IsPrefix(StepNames(sdLog), <<"copy", "add", "diff", "commit", "push">>)
    /\ \A i \in 2..Len(sdLog) :
          sdLog[i-1].rc = (IF sdLog[i-1].step = "diff" THEN 1 ELSE 0)
    /\ ~sdIn.master =>
          /\ sdLog = <<>>
          /\ sdRepo = InitialRepo(sdIn)
          /\ sdPc = "exit" => sdExit = "1"
    /\ (\E i \in 1..Len(sdLog) : sdLog[i].step = "diff" /\ sdLog[i].rc = 0) =>
          /\ Len(sdLog) = 3
          /\ sdRepo.commits = 0 /\ sdRepo.pushed = 0
    /\ \A i \in 1..Len(sdLog) :
          sdLog[i].step = "push" =>
              \E j \in 1..(i-1) : sdLog[j].step = "commit" /\ sdLog[j].rc = 0
    /\ sdRepo.pushed =< sdRepo.commits

\* a run that went through the four steps and pushed its commit
C29_Witness ==
    /\ sdPc = "exit" /\ sdExit = "0"
    /\ Len(sdLog) = 5 /\ sdLog[5] = [step |-> "push", rc |-> 0]
    /\ sdRepo.file = "master" /\ sdRepo.pushed = 1

-----------------------------------------------------------------------------
(* Properties of the password gate                                          *)

\* C30: in every session the dashboard (sidebar, load, page) is drawn only by
\* a script run that finds password_correct True; the flag is True exactly
\* after a submission of the password, which is then not in session state,
\* False after a submission of anything else, and once True it stays True.
C30_GateHolds ==
    /\ [](\A u \in Sessions :
            /\ ssPage[u] \in {"dashboard", "url prompt"} => ssCorrect[u] = "True"
            /\ ssCorrect[u] = (IF ssLast[u] = <<>> THEN "unset"
                               ELSE IF ssLast[u] = <<"L6xQ@J%S@rGP">> THEN "True"
                               ELSE "False")
            /\ ssCorrect[u] = "True" => ssPassword[u] = <<>>)
    /\ [][\A u \in Sessions :
            /\ ssCorrect[u] = "True" => ssCorrect'[u] = "True"
            /\ (ssPage'[u] # ssPage[u] /\ ssPage'[u] \in {"dashboard", "url prompt"})
                  => ssCorrect[u] = "True"]_vars

\* one session is through the gate after a wrong and a right submission
\* while another, after a wrong one, still sees the password box
C30_Witness ==
    /\ ssCorrect[1] = "True" /\ ssPage[1] = "dashboard" /\ ssSubmits[1] = 2
    /\ ssCorrect[2] = "False" /\ ssPage[2] = "password" /\ ssPos[2] = "waiting"
    /\ ssPassword[2] = <<"l6xq@j%s@rgp">>

=============================================================================
